---- MODULE Spec2Model ----
(***************************************************************************)
(* State-machine model of the transcript pipeline of src/app.py:           *)
(*   generate_jwt, clean_kore_text, fetch_data (behind st.cache_data) and  *)
(*   the filters applied to every message of a page.                       *)
(*                                                                         *)
(* Python values are tagged records:                                       *)
(*   [t |-> "str", s |-> "..."]   a str                                    *)
(*   [t |-> "int", s |-> "12"]    an int, kept as its decimal digits       *)
(*   [t |-> "none"]               None                                     *)
(*   [t |-> "bool", b |-> TRUE]   a bool                                   *)
(*   [t |-> "dict", items |-> <<[k |-> "key", v |-> value], ...>>]         *)
(* and a raised exception is [t |-> "raise", exc |-> "TypeError"].         *)
(***************************************************************************)
EXTENDS Integers, Sequences, FiniteSets, TLC

(***************************************************************************)
(* Python str primitives                                                   *)
(***************************************************************************)

\* s[i-1] of Python (1-based here); "" when i is out of range
At(s, i) == IF i >= 1 /\ i <= Len(s) THEN SubSeq(s, i, i) ELSE ""

\* s[i-1:] of Python
From(s, i) == SubSeq(s, i, Len(s))

\* the characters str.strip() removes (the ASCII ones TLA+ can write)
StripChars == {" ", "\t", "\n", "\r", "\f"}

RECURSIVE lstrip(_)
lstrip(s) ==
  IF Len(s) > 0 /\ At(s, 1) \in StripChars THEN lstrip(From(s, 2)) ELSE s

RECURSIVE rstrip(_)
rstrip(s) ==
  IF Len(s) > 0 /\ At(s, Len(s)) \in StripChars
  THEN rstrip(SubSeq(s, 1, Len(s) - 1))
  ELSE s

\* str.strip()
strip(s) == rstrip(lstrip(s))

\* s.startswith(p), from position i
StartsWithAt(s, i, p) ==
  /\ i >= 1
  /\ i + Len(p) - 1 <= Len(s)
  /\ SubSeq(s, i, i + Len(p) - 1) = p

startswith(s, p) == StartsWithAt(s, 1, p)

\* `sub in s`
contains(s, sub) == \E i \in 1..(Len(s) + 1) : StartsWithAt(s, i, sub)

\* s.replace(old, new): leftmost non-overlapping occurrences, old non-empty
RECURSIVE replace(_, _, _)
replace(s, old, new) ==
  IF Len(s) = 0 THEN ""
  ELSE IF startswith(s, old)
       THEN new \o replace(From(s, Len(old) + 1), old, new)
       ELSE At(s, 1) \o replace(From(s, 2), old, new)

\* index of the first ">" at or after i, 0 when there is none
RECURSIVE FindGt(_, _)
FindGt(s, i) ==
  IF i > Len(s) THEN 0
  ELSE IF At(s, i) = ">" THEN i ELSE FindGt(s, i + 1)

\* what re.sub(r'<[^>]*>', '', s) would give: "<>" is removed as well
RECURSIVE re_sub_tags_star(_)
re_sub_tags_star(s) ==
  IF Len(s) = 0 THEN ""
  ELSE IF At(s, 1) = "<" /\ FindGt(s, 2) >= 2
       THEN re_sub_tags_star(From(s, FindGt(s, 2) + 1))
       ELSE At(s, 1) \o re_sub_tags_star(From(s, 2))

\* re.sub(r'<[^>]+>', '', s): a match starts at a "<", runs to the first ">"
\* after it and holds at least one character in between
RECURSIVE re_sub_tags(_)
re_sub_tags(s) ==
  IF Len(s) = 0 THEN ""
  ELSE IF At(s, 1) = "<" /\ FindGt(s, 2) >= 3
       THEN re_sub_tags(From(s, FindGt(s, 2) + 1))
       ELSE At(s, 1) \o re_sub_tags(From(s, 2))

(***************************************************************************)
(* json.loads, for the JSON the inputs below are written in: objects,      *)
(* strings with the simple backslash escapes, integers, null, true and     *)
(* false.  Arrays, floats and \u escapes are outside the input alphabet.   *)
(***************************************************************************)

PyStr(s) == [t |-> "str", s |-> s]
PyInt(digits) == [t |-> "int", s |-> digits]
PyNone == [t |-> "none"]
PyBool(b) == [t |-> "bool", b |-> b]
PyDict(items) == [t |-> "dict", items |-> items]
Raise(exc) == [t |-> "raise", exc |-> exc]

JsonWs == {" ", "\t", "\n", "\r"}
Digits == {"0", "1", "2", "3", "4", "5", "6", "7", "8", "9"}
ParseFail == [ok |-> FALSE]
ParseOk(v, i) == [ok |-> TRUE, v |-> v, i |-> i]

RECURSIVE SkipWs(_, _)
SkipWs(s, i) == IF At(s, i) \in JsonWs THEN SkipWs(s, i + 1) ELSE i

\* the character a backslash escape stands for, "" when it is not one
Unescape(c) ==
  CASE c = "\"" -> "\""
    [] c = "\\" -> "\\"
    [] c = "/" -> "/"
    [] c = "n" -> "\n"
    [] c = "t" -> "\t"
    [] c = "r" -> "\r"
    [] c = "f" -> "\f"
    [] OTHER -> ""

\* the body of a JSON string from position j (after the opening quote)
RECURSIVE ScanString(_, _, _)
ScanString(s, j, acc) ==
  LET c == At(s, j) IN
  IF c = "" THEN ParseFail
  ELSE IF c = "\"" THEN ParseOk(acc, j + 1)
  ELSE IF c = "\\"
       THEN IF Unescape(At(s, j + 1)) = "" THEN ParseFail
            ELSE ScanString(s, j + 2, acc \o Unescape(At(s, j + 1)))
  ELSE IF c \in {"\t", "\n", "\r", "\f"} THEN ParseFail
  ELSE ScanString(s, j + 1, acc \o c)

RECURSIVE ScanDigits(_, _)
ScanDigits(s, i) == IF At(s, i) \in Digits THEN ScanDigits(s, i + 1) ELSE i

\* -?(0|[1-9][0-9]*) at position i
ParseInt(s, i) ==
  LET d == IF At(s, i) = "-" THEN i + 1 ELSE i
      e == IF At(s, d) = "0" THEN d + 1 ELSE ScanDigits(s, d)
      isFloat == \/ At(s, e) = "." /\ At(s, e + 1) \in Digits
                 \/ At(s, e) \in {"e", "E"}
                    /\ \/ At(s, e + 1) \in Digits
                       \/ At(s, e + 1) \in {"+", "-"} /\ At(s, e + 2) \in Digits
  IN IF e = d \/ isFloat THEN ParseFail
     ELSE ParseOk(PyInt(IF SubSeq(s, i, e - 1) = "-0" THEN "0"
                        ELSE SubSeq(s, i, e - 1)), e)

\* json.loads as the scanner runs: one step per token, with the objects that
\* are still open on a stack of frames [items, key], key the member name
\* whose value is being read.  mode is what is expected at position i:
\*   "value"  a value
\*   "key"    a member name and its colon
\*   "after"  what follows the value cur: a comma, a closing brace, or the end
RECURSIVE JsonRun(_, _, _, _, _)
JsonRun(s, i, mode, stack, cur) ==
  LET j == SkipWs(s, i)
      c == At(s, j)
  IN
  CASE mode = "value" ->
         IF c = "\"" THEN
           LET str == ScanString(s, j + 1, "") IN
           IF str.ok THEN JsonRun(s, str.i, "after", stack, PyStr(str.v))
           ELSE ParseFail
         ELSE IF c = "{" THEN
           IF At(s, SkipWs(s, j + 1)) = "}"
           THEN JsonRun(s, SkipWs(s, j + 1) + 1, "after", stack, PyDict(<<>>))
           ELSE JsonRun(s, j + 1, "key",
                        Append(stack, [items |-> <<>>, key |-> ""]), cur)
         ELSE IF StartsWithAt(s, j, "null")
           THEN JsonRun(s, j + 4, "after", stack, PyNone)
         ELSE IF StartsWithAt(s, j, "true")
           THEN JsonRun(s, j + 4, "after", stack, PyBool(TRUE))
         ELSE IF StartsWithAt(s, j, "false")
           THEN JsonRun(s, j + 5, "after", stack, PyBool(FALSE))
         ELSE IF c = "-" \/ c \in Digits THEN
           LET n == ParseInt(s, j) IN
           IF n.ok THEN JsonRun(s, n.i, "after", stack, n.v) ELSE ParseFail
         ELSE ParseFail
    [] mode = "key" ->
         IF c # "\"" THEN ParseFail
         ELSE LET key == ScanString(s, j + 1, "") IN
              IF ~key.ok THEN ParseFail
              ELSE IF At(s, SkipWs(s, key.i)) # ":" THEN ParseFail
              ELSE JsonRun(s, SkipWs(s, key.i) + 1, "value",
                           [stack EXCEPT ![Len(stack)].key = key.v], cur)
    [] mode = "after" ->
         IF Len(stack) = 0
         THEN IF j = Len(s) + 1 THEN [ok |-> TRUE, v |-> cur] ELSE ParseFail
         ELSE LET top == stack[Len(stack)]
                  got == Append(top.items, [k |-> top.key, v |-> cur])
              IN IF c = "}"
                 THEN JsonRun(s, j + 1, "after",
                              SubSeq(stack, 1, Len(stack) - 1), PyDict(got))
                 ELSE IF c = ","
                 THEN JsonRun(s, j + 1, "key",
                              [stack EXCEPT ![Len(stack)].items = got], cur)
                 ELSE ParseFail

\* json.loads(s): [ok |-> TRUE, v |-> value], or [ok |-> FALSE] when it raises
json_loads(s) == JsonRun(s, 1, "value", <<>>, PyNone)

\* `key in d` and d[key] of a dict (json.loads keeps the last duplicate)
HasKey(d, key) == \E n \in 1..Len(d.items) : d.items[n].k = key

GetKey(d, key) ==
  LET n == CHOOSE n \in 1..Len(d.items) :
             /\ d.items[n].k = key
             /\ \A m \in (n + 1)..Len(d.items) : d.items[m].k # key
  IN d.items[n].v

\* format(v) inside an f-string, for the values a `type` field takes in the
\* inputs below (never a dict)
py_str(v) ==
  CASE v.t = "str" -> v.s
    [] v.t = "int" -> v.s
    [] v.t = "none" -> "None"
    [] v.t = "bool" -> IF v.b THEN "True" ELSE "False"

\* bool(v): Python truthiness
Truthy(v) ==
  CASE v.t = "str" -> v.s # ""
    [] v.t = "int" -> v.s # "0"
    [] v.t = "none" -> FALSE
    [] v.t = "bool" -> v.b
    [] v.t = "dict" -> Len(v.items) > 0

(***************************************************************************)
(* clean_kore_text                                                         *)
(***************************************************************************)

\* lines 137-138: tag removal, then the three entity replacements in order;
\* re.sub raises TypeError on anything that is not a str
Finish(v) ==
  IF v.t # "str" THEN Raise("TypeError")
  ELSE PyStr(replace(replace(replace(re_sub_tags(v.s),
                 "&nbsp;", " "), "&amp;", "&"), "&quot;", "\""))

\* what lines 129-134 would give with the two tests in the other order:
\* a `payload` field wins over a `text` field
PayloadFirst(raw_text, parsed) ==
  IF ~parsed.ok THEN [ret |-> FALSE, v |-> raw_text]
  ELSE IF parsed.v.t = "dict" /\ HasKey(parsed.v, "payload")
       THEN [ret |-> TRUE,
             v |-> PyStr("[Interactive: " \o
                         (IF HasKey(parsed.v, "type")
                          THEN py_str(GetKey(parsed.v, "type"))
                          ELSE "template") \o "]")]
  ELSE IF parsed.v.t = "dict" /\ HasKey(parsed.v, "text")
       THEN [ret |-> FALSE, v |-> GetKey(parsed.v, "text")]
  ELSE [ret |-> FALSE, v |-> raw_text]

\* what lines 129-134 would give if line 133 set raw_text to the label
\* instead of returning it, so that the finishing pass ran over it
LabelStripped(raw_text, parsed) ==
  IF ~parsed.ok THEN [ret |-> FALSE, v |-> raw_text]
  ELSE IF parsed.v.t = "dict" /\ HasKey(parsed.v, "text")
       THEN [ret |-> FALSE, v |-> GetKey(parsed.v, "text")]
  ELSE IF parsed.v.t = "dict" /\ HasKey(parsed.v, "payload")
       THEN [ret |-> FALSE,
             v |-> PyStr("[Interactive: " \o
                         (IF HasKey(parsed.v, "type")
                          THEN py_str(GetKey(parsed.v, "type"))
                          ELSE "template") \o "]")]
  ELSE [ret |-> FALSE, v |-> raw_text]

\* what lines 129-134 would give without the `except: pass` of line 134
RaiseOnParseError(raw_text, parsed) ==
  IF ~parsed.ok THEN [ret |-> TRUE, v |-> Raise("JSONDecodeError")]
  ELSE IF parsed.v.t = "dict" /\ HasKey(parsed.v, "text")
       THEN [ret |-> FALSE, v |-> GetKey(parsed.v, "text")]
  ELSE IF parsed.v.t = "dict" /\ HasKey(parsed.v, "payload")
       THEN [ret |-> TRUE,
             v |-> PyStr("[Interactive: " \o
                         (IF HasKey(parsed.v, "type")
                          THEN py_str(GetKey(parsed.v, "type"))
                          ELSE "template") \o "]")]
  ELSE [ret |-> FALSE, v |-> raw_text]

\* lines 129-134, on what json.loads gave.  Yields [ret |-> TRUE, v |-> the
\* returned value] when the function returns from inside the branch, else
\* [ret |-> FALSE, v |-> the working value the finishing pass goes on with]
\* (the bare `except: pass` leaves raw_text as it was).
JsonBranchOn(raw_text, parsed) ==
  IF ~parsed.ok THEN [ret |-> FALSE, v |-> raw_text]
  ELSE IF parsed.v.t = "dict" /\ HasKey(parsed.v, "text")
       THEN [ret |-> FALSE, v |-> GetKey(parsed.v, "text")]
  ELSE IF parsed.v.t = "dict" /\ HasKey(parsed.v, "payload")
       THEN [ret |-> TRUE,
             v |-> PyStr("[Interactive: " \o
                         (IF HasKey(parsed.v, "type")
                          THEN py_str(GetKey(parsed.v, "type"))
                          ELSE "template") \o "]")]
  ELSE [ret |-> FALSE, v |-> raw_text]

\* lines 127-134: the JSON branch
JsonBranch(raw_text) == JsonBranchOn(raw_text, json_loads(raw_text.s))

\* line 133's return, or lines 137-139 on the working value
AfterJson(j) == IF j.ret THEN j.v ELSE Finish(j.v)

\* clean_kore_text(raw_text): a str value, or the exception it raises
clean_kore_text(raw_text) ==
  IF ~Truthy(raw_text) THEN PyStr("")
  ELSE IF raw_text.t # "str" THEN Raise("AttributeError")
  ELSE IF startswith(strip(raw_text.s), "{")
       THEN AfterJson(JsonBranch(raw_text))
       ELSE Finish(raw_text)

(***************************************************************************)
(* Inputs of clean_kore_text: texts put together from fragments (plain     *)
(* words, tags and their pieces, entities and their pieces, braces and     *)
(* quotes), bare or inside JSON envelopes, and values that are not a str.  *)
(***************************************************************************)

MaxParts == 2

TextFragments ==
  {"Hi", " ", "<b>", "<", ">", "&amp;", "&nbsp;", "&quot;", "amp;", "&",
   "{", "{\\\"text\\\":\\\"Hi\\\"}"}

\* the texts made of at most n fragments
RECURSIVE Concats(_, _)
Concats(fragments, n) ==
  IF n = 0 THEN {""}
  ELSE LET prev == Concats(fragments, n - 1)
       IN prev \cup {t \o f : t \in prev, f \in fragments}

\* the text of the worked example of the specification, section 8
ExampleText == "<b>Hi</b>&amp;bye"

ExampleDoc == "{\"text\": \"" \o ExampleText \o "\"}"

Texts == Concats(TextFragments, MaxParts) \cup {ExampleText}

\* <<prefix, suffix>> around a text
Envelopes ==
  {<<"", "">>,
   <<"{\"text\":\"", "\"}">>,
   <<" {\"text\": \"", "\"} ">>,
   <<"{\"text\":\"", "\",\"payload\":{\"a\":1}}">>,
   <<"{\"payload\":{\"a\":1},\"text\":\"", "\"}">>,
   <<"{\"text\":\"x\",\"text\":\"", "\"}">>,
   <<"{\"payload\":{},\"type\":\"", "\"}">>,
   <<"{\"payload\":\"", "\"}">>,
   <<"{\"msg\":\"", "\"}">>,
   <<"{\"text\":\"", "\"">>,
   <<"\f{\"text\":\"", "\"}">>}

\* JSON documents whose `text` or `type` is not a string
FixedDocs ==
  {"{\"text\":5}", "{\"text\":null}", "{\"text\":{\"text\":\"Hi\"}}",
   "{\"text\":true,\"payload\":1}", "{\"payload\":1,\"type\":5}",
   "{\"payload\":1,\"type\":null}", "{\"payload\":null}", "{}",
   "{\"type\":\"Hi\"}"}

\* the two interactive documents of the specification, section 8
LabelExamples ==
  {"{\"payload\": {\"a\":1}, \"type\": \"carousel\"}",
   "{\"payload\": {\"a\":1}}"}

CleanStrInputs ==
  {e[1] \o t \o e[2] : e \in Envelopes, t \in Texts}
    \cup FixedDocs \cup {ExampleDoc} \cup LabelExamples

\* raw_text values that are not a str
NonStrInputs ==
  {PyNone, PyInt("0"), PyInt("5"), PyBool(TRUE), PyDict(<<>>),
   PyDict(<<[k |-> "text", v |-> PyStr("Hi")]>>)}

CleanInputs == {PyStr(s) : s \in CleanStrInputs} \cup NonStrInputs

(***************************************************************************)
(* The filters and the body of the message loop of fetch_data              *)
(***************************************************************************)

HexDigits ==
  Digits \cup {"a", "b", "c", "d", "e", "f", "A", "B", "C", "D", "E", "F"}

\* the positions of the four hyphens of 8-4-4-4-12, and its length
UuidHyphens == {9, 14, 19, 24}
UuidLen == 36

\* the pattern between ^ and $ matches the whole of s
IsUuid(s) ==
  /\ Len(s) = UuidLen
  /\ \A i \in 1..UuidLen :
       IF i \in UuidHyphens THEN At(s, i) = "-" ELSE At(s, i) \in HexDigits

\* UUID_PATTERN.match(s): ^ at the start, $ at the end or before a last "\n"
UUID_PATTERN_match(s) ==
  \/ IsUuid(s)
  \/ /\ Len(s) = UuidLen + 1
     /\ At(s, Len(s)) = "\n"
     /\ IsUuid(SubSeq(s, 1, UuidLen))

UserDetailsMarker == "@@userdetailspayload@@"

\* a field the server left out of a message
Absent == "<absent>"

\* msg.get(field, default)
GetOr(value, default) == IF value = Absent THEN default ELSE value

\* lines 201-203: the raw text candidate of a message, or the exception
\* raised on the way to it.  components.shape is what the server sent:
\*   "absent" / "empty"  no components, or an empty list
\*   "nodata" / "notext" a first component without data, or data without text
\*   "text"              data.text is components.text
\*   "nulldata"          data is null, so .get is called on None
ExtractRawText(msg) ==
  CASE msg.components.shape \in {"absent", "empty", "nodata", "notext"}
         -> PyStr("")
    [] msg.components.shape = "text" -> msg.components.text
    [] msg.components.shape = "nulldata" -> Raise("AttributeError")

\* what lines 208-210 would give with the pattern and the marker looked for
\* in final_text itself, white space included
MatchUnstripped(final_text) ==
  \/ final_text = ""
  \/ UUID_PATTERN_match(final_text)
  \/ contains(final_text, UserDetailsMarker)

\* what lines 208-210 would give without the test of line 208
KeepEmpty(final_text) ==
  \/ UUID_PATTERN_match(strip(final_text))
  \/ contains(strip(final_text), UserDetailsMarker)

\* lines 208-210: the three `continue` tests on the normalized text
ShouldDrop(final_text) ==
  LET clean_msg_strip == strip(final_text) IN
  \/ final_text = ""
  \/ UUID_PATTERN_match(clean_msg_strip)
  \/ contains(clean_msg_strip, UserDetailsMarker)

\* what lines 212-218 would give if every message that is not 'outgoing'
\* counted as the user's
NormalizedMessageNotOutgoing(msg, final_text) ==
  [Timestamp |-> msg.createdOn,
   SessionID |-> GetOr(msg.sessionId, "unknown"),
   UserID |-> GetOr(msg.createdBy, "system"),
   Sender |-> IF msg.type # "outgoing" THEN "USER" ELSE "BOT",
   Message |-> final_text]

\* lines 212-218: the record appended for a message that is kept
NormalizedMessage(msg, final_text) ==
  [Timestamp |-> msg.createdOn,
   SessionID |-> GetOr(msg.sessionId, "unknown"),
   UserID |-> GetOr(msg.createdBy, "system"),
   Sender |-> IF msg.type = "incoming" THEN "USER" ELSE "BOT",
   Message |-> final_text]

\* lines 208-218 for one message, on its normalized text:
\*   [kind |-> "raise", exc]   an exception leaves the loop body
\*   [kind |-> "drop"]         `continue`
\*   [kind |-> "emit", rec]    all_messages.append(rec)
FilterMessage(msg, final) ==
  IF final.t = "raise" THEN [kind |-> "raise", exc |-> final.exc]
  ELSE IF ShouldDrop(final.s) THEN [kind |-> "drop"]
  ELSE [kind |-> "emit", rec |-> NormalizedMessage(msg, final.s)]

\* lines 205-218 for one message, on its raw text candidate
NormalizeMessage(msg, raw_text) ==
  IF raw_text.t = "raise" THEN [kind |-> "raise", exc |-> raw_text.exc]
  ELSE FilterMessage(msg, clean_kore_text(raw_text))

\* lines 200-218 for one message: what the loop body does with it
ProcessMessage(msg) == NormalizeMessage(msg, ExtractRawText(msg))

(***************************************************************************)
(* The callers' parameters and what the server may answer                  *)
(***************************************************************************)

DigitStr(n) ==
  CASE n = 0 -> "0" [] n = 1 -> "1" [] n = 2 -> "2" [] n = 3 -> "3"
    [] n = 4 -> "4" [] n = 5 -> "5" [] n = 6 -> "6" [] n = 7 -> "7"
    [] n = 8 -> "8" [] n = 9 -> "9"

\* date.strftime('%Y-%m-%d') of a date [y, m, d]
strftime(date) ==
  DigitStr(date.y \div 1000) \o DigitStr((date.y \div 100) % 10)
    \o DigitStr((date.y \div 10) % 10) \o DigitStr(date.y % 10) \o "-"
    \o DigitStr(date.m \div 10) \o DigitStr(date.m % 10) \o "-"
    \o DigitStr(date.d \div 10) \o DigitStr(date.d % 10)

Date(y, m, d) == [y |-> y, m |-> m, d |-> d]

\* the five parameters of fetch_data
BaseKey ==
  [bot_id |-> "bot1", client_id |-> "app1", client_secret |-> PyStr("s3cret"),
   date_from |-> Date(2026, 1, 5), date_to |-> Date(2026, 1, 12)]

\* the parameters with exactly one of the five changed
OtherKeys ==
  {[BaseKey EXCEPT !.bot_id = "bot2"],
   [BaseKey EXCEPT !.client_id = "app2"],
   [BaseKey EXCEPT !.client_secret = PyStr("other")],
   [BaseKey EXCEPT !.date_from = Date(2026, 1, 6)],
   [BaseKey EXCEPT !.date_to = Date(2026, 1, 13)]}

\* a CLIENT_SECRET that is not a string in secrets.toml: jwt.encode rejects it
BadSecretKey == [BaseKey EXCEPT !.client_secret = PyInt("7")]

FetchKeys == {BaseKey, BadSecretKey}

\* main calls with the base parameters and with one other set
CacheKeys == {{BaseKey, k} : k \in OtherKeys}

RawMessage(createdOn, sessionId, createdBy, type, components) ==
  [createdOn |-> createdOn, sessionId |-> sessionId, createdBy |-> createdBy,
   type |-> type, components |-> components]

TextComponent(v) == [shape |-> "text", text |-> v]
NoTextComponent(shape) == [shape |-> shape, text |-> PyNone]

\* a user message, a bot message in a JSON envelope and without session or
\* author, a noise message (a bare UUID), and one whose `text` is a number
MsgUser == RawMessage(3, "s1", "u1", "incoming", TextComponent(PyStr("Hi")))
MsgBot ==
  RawMessage(2, Absent, Absent, "outgoing",
             TextComponent(PyStr("{\"text\":\"<b>Yo</b>\"}")))
MsgNoise ==
  RawMessage(1, "s1", "u1", "incoming",
             TextComponent(PyStr(" a1b2c3d4-e5f6-7890-abcd-1234567890ab\n")))
MsgBad == RawMessage(1, "s1", "u1", "outgoing", TextComponent(PyStr("{\"text\":5}")))

PyAbsent == [t |-> "absent"]
MoreFlags == {PyBool(TRUE), PyBool(FALSE), PyAbsent}

\* a response body: not JSON, or the JSON object {messages, moreAvailable}
TextBody == [json |-> FALSE]
PageBody(messages, more) ==
  [json |-> TRUE, messages |-> messages, moreAvailable |-> more]

\* what a POST comes back with: an exception, or an HTTP response
ExcAnswer == [kind |-> "exc", exc |-> "ConnectionError"]
Http(status, body) == [kind |-> "http", status |-> status, body |-> body]

SmallMsgs == {MsgUser, MsgBot, MsgNoise, MsgBad}

\* pages of at most two different messages
SmallPages ==
  {<<>>} \cup {<<m>> : m \in SmallMsgs}
    \cup {p \in SmallMsgs \X SmallMsgs : p[1] # p[2]}

\* texts for the filters: UUIDs in both cases, a near-UUID, the marker and its
\* pieces, white space, a tag
FilterFragments ==
  {"a1b2c3d4-e5f6-7890-abcd-1234567890ab",
   "A1B2C3D4-E5F6-7890-ABCD-1234567890AB",
   "g1b2c3d4-e5f6-7890-abcd-1234567890ab",
   " ", "\n", "x", "@@userdetailspayload@@", "@@", "<b>"}

FilterTexts == Concats(FilterFragments, MaxParts)

\* every shape of `components`, every kind of text, every `type`
RichMsgs ==
  {RawMessage(5, "s2", "u2", ty, TextComponent(PyStr(s))) :
     ty \in {"incoming", "outgoing", Absent}, s \in FilterTexts \cup FixedDocs}
    \cup {RawMessage(5, "s2", Absent, "incoming", TextComponent(v)) :
             v \in NonStrInputs}
    \cup {RawMessage(5, Absent, "u2", "outgoing", NoTextComponent(sh)) :
             sh \in {"absent", "empty", "nodata", "notext", "nulldata"}}

\* one page of one message, the last page
RichAnswers ==
  {Http(200, PageBody(<<m>>, f)) : m \in RichMsgs,
                                   f \in {PyBool(FALSE), PyAbsent}}

ServerMsgs == SmallMsgs \cup RichMsgs

FetchAnswers ==
  {ExcAnswer}
    \cup {Http(200, TextBody)}
    \cup {Http(200, PageBody(p, f)) : p \in SmallPages, f \in MoreFlags}
    \cup {Http(s, b) : s \in {201, 500},
                       b \in {TextBody, PageBody(<<MsgUser>>, PyBool(TRUE))}}

(***************************************************************************)
(* The message loop over a page                                            *)
(***************************************************************************)

\* ProcessMessage, evaluated once for each message the server can send
MessageOutcome == [m \in ServerMsgs |-> ProcessMessage(m)]

\* lines 201-205: final_text of a message, or the exception raised on the way
FinalTextOf(raw_text) ==
  IF raw_text.t = "raise" THEN raw_text ELSE clean_kore_text(raw_text)

FinalText == [m \in ServerMsgs |-> FinalTextOf(ExtractRawText(m))]

\* lines 200-218 for a page: the messages appended to acc, in order, until
\* the page is exhausted or a message raises
RECURSIVE ProcessPage(_, _)
\* what the loop would give if the handler of line 228 threw the list away
DiscardOnRaise(acc, rest, r) ==
  CASE r.kind = "raise" -> [msgs |-> <<>>, exc |-> r.exc]
    [] r.kind = "drop" -> ProcessPage(acc, rest)
    [] r.kind = "emit" -> ProcessPage(Append(acc, r.rec), rest)

\* what the loop would give with all_messages.insert(0, ...) at line 212
PrependOutcome(acc, rest, r) ==
  CASE r.kind = "raise" -> [msgs |-> acc, exc |-> r.exc]
    [] r.kind = "drop" -> ProcessPage(acc, rest)
    [] r.kind = "emit" -> ProcessPage(<<r.rec>> \o acc, rest)

AppendOutcome(acc, rest, r) ==
  CASE r.kind = "raise" -> [msgs |-> acc, exc |-> r.exc]
    [] r.kind = "drop" -> ProcessPage(acc, rest)
    [] r.kind = "emit" -> ProcessPage(Append(acc, r.rec), rest)

ProcessPage(acc, messages) ==
  IF Len(messages) = 0 THEN [msgs |-> acc, exc |-> "none"]
  ELSE AppendOutcome(acc, Tail(messages), MessageOutcome[Head(messages)])

(***************************************************************************)
(* process_to_pairs: the grouping, the two sorts and the pieces of the walk *)
(***************************************************************************)

Sentinel == "(Bot Initiated / Welcome)"
Separator == " \n "

\* a record of raw_data, as fetch_data appends them
Chat(Timestamp, SessionID, UserID, Sender, Message) ==
  [Timestamp |-> Timestamp, SessionID |-> SessionID, UserID |-> UserID,
   Sender |-> Sender, Message |-> Message]

\* line 242: sessions[msg['SessionID']].append(msg); a dict keeps its keys in
\* the order of their first insertion
AddToSession(grouped, msg) ==
  IF \E n \in 1..Len(grouped) : grouped[n].id = msg.SessionID
  THEN [n \in 1..Len(grouped) |->
          IF grouped[n].id = msg.SessionID
          THEN [id |-> grouped[n].id, chats |-> Append(grouped[n].chats, msg)]
          ELSE grouped[n]]
  ELSE Append(grouped, [id |-> msg.SessionID, chats |-> <<msg>>])

\* lines 240-242
RECURSIVE GroupBySession(_, _)
GroupBySession(grouped, rest) ==
  IF Len(rest) = 0 THEN grouped
  ELSE GroupBySession(AddToSession(grouped, Head(rest)), Tail(rest))

\* what the sort of line 247 would give if it were not stable: a chat goes
\* in front of the chats of its own Timestamp
RECURSIVE InsertBeforeEqual(_, _)
InsertBeforeEqual(sorted, chat) ==
  IF Len(sorted) = 0 THEN <<chat>>
  ELSE IF chat.Timestamp <= Head(sorted).Timestamp THEN <<chat>> \o sorted
  ELSE <<Head(sorted)>> \o InsertBeforeEqual(Tail(sorted), chat)

\* chat put behind every chat that is not later than it
RECURSIVE InsertAscending(_, _)
InsertAscending(sorted, chat) ==
  IF Len(sorted) = 0 THEN <<chat>>
  ELSE IF chat.Timestamp < Head(sorted).Timestamp THEN <<chat>> \o sorted
  ELSE <<Head(sorted)>> \o InsertAscending(Tail(sorted), chat)

\* line 247: chats.sort(key=lambda x: x['Timestamp']), ascending and stable
RECURSIVE sort_chats(_)
sort_chats(chats) ==
  IF Len(chats) = 0 THEN <<>>
  ELSE InsertAscending(sort_chats(SubSeq(chats, 1, Len(chats) - 1)),
                       chats[Len(chats)])

\* what lines 256-262 would give with the pair stamped by a clock of the
\* walk instead of the chat
OpenPairUnstamped(chat, session_id) ==
  [Timestamp |-> 0, SessionID |-> session_id, UserID |-> chat.UserID,
   Query |-> chat.Message, Response |-> ""]

\* lines 256-262: the pair a USER chat opens
OpenPair(chat, session_id) ==
  [Timestamp |-> chat.Timestamp, SessionID |-> session_id,
   UserID |-> chat.UserID, Query |-> chat.Message, Response |-> ""]

\* what lines 265-266 would give with the texts joined by a bare newline
AppendReplyNewline(pair, text) ==
  [pair EXCEPT !.Response = IF @ # "" THEN @ \o "\n" \o text ELSE text]

\* lines 265-266: a BOT chat's text added to the open pair
AppendReply(pair, text) ==
  [pair EXCEPT !.Response = IF @ # "" THEN @ \o Separator \o text ELSE text]

\* lines 268-274: the pair made for a BOT chat when no pair is open
WelcomePair(chat, session_id) ==
  [Timestamp |-> chat.Timestamp, SessionID |-> session_id,
   UserID |-> chat.UserID, Query |-> Sentinel, Response |-> chat.Message]

\* what lines 255 and 276 would give if the open pair were dropped
LoseOpenPair(pairs, pair) == pairs

\* lines 255 and 276: `if current_pair: final_pairs.append(current_pair)`
AppendIfOpen(pairs, pair) == IF pair # PyNone THEN Append(pairs, pair) ELSE pairs

\* what line 280 would give if it kept every row
KeepAllRows(rows) == rows

\* line 280: df[df['Query'] != "(Bot Initiated / Welcome)"]
DropSentinelRows(rows) == SelectSeq(rows, LAMBDA row : row.Query # Sentinel)

\* line 283: pd.to_datetime of a Timestamp
to_datetime(timestamp) == [datetime |-> timestamp]

RowWithDatetime(row) == [row EXCEPT !.Timestamp = to_datetime(@)]

\* row put behind every row that is not earlier than it
RECURSIVE InsertDescending(_, _)
InsertDescending(sorted, row) ==
  IF Len(sorted) = 0 THEN <<row>>
  ELSE IF row.Timestamp.datetime > Head(sorted).Timestamp.datetime
       THEN <<row>> \o sorted
  ELSE <<Head(sorted)>> \o InsertDescending(Tail(sorted), row)

\* what line 284 would give with ascending=True
RECURSIVE sort_values_ascending(_)
sort_values_ascending(rows) ==
  IF Len(rows) = 0 THEN <<>>
  ELSE LET rest == sort_values_ascending(SubSeq(rows, 1, Len(rows) - 1))
           row == rows[Len(rows)]
           n == Cardinality({i \in 1..Len(rest) :
                  rest[i].Timestamp.datetime <= row.Timestamp.datetime})
       IN SubSeq(rest, 1, n) \o <<row>> \o SubSeq(rest, n + 1, Len(rest))

\* line 284: df.sort_values(by='Timestamp', ascending=False).  Rows of one
\* Timestamp stay in the order they had: the default sort of numpy is an
\* insertion sort on the few rows the tables here have.
RECURSIVE sort_values(_)
sort_values(rows) ==
  IF Len(rows) = 0 THEN <<>>
  ELSE InsertDescending(sort_values(SubSeq(rows, 1, Len(rows) - 1)),
                        rows[Len(rows)])

\* lines 283-284 on the rows that are left
SortedTable(rows) ==
  sort_values([i \in 1..Len(rows) |-> RowWithDatetime(rows[i])])

\* lines 278-287: the table returned for final_pairs, as its rows in order;
\* the empty table has none
MakeTable(pairs) ==
  IF Len(pairs) = 0 THEN <<>>
  ELSE IF Len(DropSentinelRows(pairs)) = 0 THEN <<>>
  ELSE SortedTable(DropSentinelRows(pairs))

\* the chats process_to_pairs is given: two sessions, USER and BOT chats, two
\* chats of one Timestamp in a session, and a USER chat whose text is the
\* sentinel's
MaxMsgs == 4

ChatCatalogue ==
  {Chat(1, "s1", "u1", "USER", "Q1"),
   Chat(2, "s1", "bot", "BOT", "A1"),
   Chat(3, "s1", "bot", "BOT", "A2"),
   Chat(4, "s1", "u1", "USER", "Q2"),
   Chat(1, "s1", "bot", "BOT", "W1"),
   Chat(2, "s2", "u2", "USER", Sentinel),
   Chat(3, "s2", "bot", "BOT", "A3"),
   Chat(3, "s2", "u2", "USER", "Q3")}

\* the sequences of at most n different chats
RECURSIVE ChatSeqs(_)
ChatSeqs(n) ==
  IF n = 0 THEN {<<>>}
  ELSE ChatSeqs(n - 1)
         \cup {Append(s, c) : s \in {q \in ChatSeqs(n - 1) : Len(q) = n - 1},
                              c \in ChatCatalogue}

PairInputs ==
  {s \in ChatSeqs(MaxMsgs) : \A i, j \in 1..Len(s) : i # j => s[i] # s[j]}

(***************************************************************************)
(* State                                                                   *)
(***************************************************************************)

VARIABLES
  inputs,       \* the parameter sets main may call fetch_data with
  now,          \* int(time.time()): the wall clock, in seconds
  cache,        \* st.cache_data entries: [key, value, reported, stored]
  runs,         \* the last completed execution of the body per key: [key, value, at]
  ncalls,       \* invocations of fetch_data made by main so far
  pc,           \* where the current invocation stands
  call,         \* the invocation: [key, cached], key the five parameters
  token,        \* fetch_data's token
  issued,       \* the tokens generate_jwt has made: [call, token]
  all_messages, \* fetch_data's all_messages
  skip,         \* fetch_data's skip
  has_more,     \* fetch_data's has_more
  page_count,   \* fetch_data's page_count
  requests,     \* the POSTs of the current invocation, in order
  responses,    \* what each of them came back with
  errors,       \* the st.error reports of the current invocation
  result,       \* what the invocation gave its caller
  cleanIn,      \* the argument of a clean_kore_text call
  cleanOut,     \* and what the call gave
  raw_data,     \* the argument of process_to_pairs
  sessions,     \* process_to_pairs's sessions, in insertion order: [id, chats]
  final_pairs,  \* process_to_pairs's final_pairs
  current_pair, \* process_to_pairs's current_pair
  si,           \* which session the loop of line 246 stands at
  ci,           \* which chat the loop of line 250 stands at
  df,           \* the table process_to_pairs returned, as its rows
  ppc,          \* where process_to_pairs stands
  nruns,        \* how many times process_to_pairs has returned
  first_df,     \* the table its first run returned
  secrets,      \* the names st.secrets holds
  fetch_btn,    \* whether the form was submitted
  mpc,          \* where main stands
  shown         \* what main has put on the page, in order

fetchVars ==
  <<inputs, now, cache, runs, ncalls, pc, call, token, issued, all_messages,
    skip, has_more, page_count, requests, responses, errors, result>>
cleanVars == <<cleanIn, cleanOut>>
pairVars ==
  <<raw_data, sessions, final_pairs, current_pair, si, ci, df, ppc, nruns,
    first_df>>
mainVars == <<secrets, fetch_btn, mpc, shown>>
vars == <<fetchVars, cleanVars, pairVars, mainVars>>

\* program constants
TokenLifetime == 3600
CacheTtl == 300
limit == 100

\* by how many seconds the clock may move between the two reads of
\* generate_jwt
ClockSteps == {0, 1}

\* bounds of the model
MaxPages == 3
MaxCalls == 3
TickSeconds == 150
MaxTime == 450

NoToken == [appId |-> "", sub |-> "", iat |-> 0, exp |-> 0, key |-> PyNone]
NoCall == [key |-> BaseKey, cached |-> FALSE]
NoResult == [state |-> "none"]
Pending == [t |-> "pending"]

SecretNames == {"BOT_ID", "CLIENT_ID", "CLIENT_SECRET"}

\* process_to_pairs has not been called
IdlePairs ==
  /\ raw_data = <<>>
  /\ sessions = <<>>
  /\ final_pairs = <<>>
  /\ current_pair = PyNone
  /\ si = 0
  /\ ci = 0
  /\ df = <<>>
  /\ ppc = "idle"
  /\ nruns = 0
  /\ first_df = <<>>

\* main stands at the given place, with its secrets and the form submitted
MainAt(place) ==
  /\ secrets = SecretNames
  /\ fetch_btn = TRUE
  /\ mpc = place
  /\ shown = <<>>

InitFetch(keySets) ==
  /\ inputs \in keySets
  /\ now = 0
  /\ cache = {}
  /\ runs = {}
  /\ ncalls = 0
  /\ pc = "idle"
  /\ call = NoCall
  /\ token = NoToken
  /\ issued = <<>>
  /\ all_messages = <<>>
  /\ skip = 0
  /\ has_more = PyBool(TRUE)
  /\ page_count = 0
  /\ requests = <<>>
  /\ responses = <<>>
  /\ errors = <<>>
  /\ result = NoResult

Init ==
  /\ InitFetch({FetchKeys})
  /\ cleanIn = PyStr("")
  /\ cleanOut = Pending
  /\ IdlePairs
  /\ MainAt("fetch")

(***************************************************************************)
(* generate_jwt and fetch_data behind st.cache_data                        *)
(***************************************************************************)

\* what the cache would do if the parameters were no part of its key
AnyKeyValid(entry, key, time) == time < entry.stored + CacheTtl

\* line 144: an entry answers a call while it is younger than the ttl
CacheValid(entry, key, time) ==
  /\ entry.key = key
  /\ time < entry.stored + CacheTtl

\* lines 144-145 and 329: main calls fetch_data(key).  A valid entry is
\* returned without running the body, and the st elements the body had put
\* out are replayed; otherwise the body starts.
CallFetchData(maxCalls) ==
  /\ pc = "idle"
  /\ ncalls < maxCalls
  /\ \E key \in inputs :
       LET hits == {e \in cache : CacheValid(e, key, now)} IN
       /\ ncalls' = ncalls + 1
       /\ requests' = <<>>
       /\ responses' = <<>>
       /\ IF hits # {}
          THEN /\ call' = [key |-> key, cached |-> TRUE]
               /\ result' = [state |-> "returned",
                             value |-> (CHOOSE e \in hits : TRUE).value]
               /\ errors' = (CHOOSE e \in hits : TRUE).reported
               /\ pc' = "idle"
          ELSE /\ call' = [key |-> key, cached |-> FALSE]
               /\ result' = NoResult
               /\ errors' = <<>>
               /\ pc' = "jwt"
  /\ UNCHANGED <<inputs, now, cache, runs, token, issued, all_messages, skip,
                 has_more, page_count, cleanVars, pairVars, mainVars>>

\* lines 115-122: the claims of the token.  time.time() is read twice, for
\* iat and for exp, and the clock may have moved on by then.
generate_jwt(client_id, client_secret, t_iat, t_exp) ==
  [appId |-> client_id, sub |-> "bot-auth", iat |-> t_iat,
   exp |-> t_exp + TokenLifetime, key |-> client_secret]

\* lines 146-161: the token and the locals.  jwt.encode raises TypeError on a
\* key that is not a string, outside of any try: main gets the exception.
GenerateJwt(steps) ==
  /\ pc = "jwt"
  /\ IF call.key.client_secret.t # "str"
     THEN /\ pc' = "crashed"
          /\ result' = [state |-> "raised", exc |-> "TypeError"]
          /\ UNCHANGED <<now, token, issued>>
     ELSE /\ \E d \in steps :
               /\ now' = now + d
               /\ token' = generate_jwt(call.key.client_id,
                                        call.key.client_secret, now, now + d)
               /\ issued' = Append(issued,
                    [call |-> ncalls,
                     token |-> generate_jwt(call.key.client_id,
                                            call.key.client_secret, now,
                                            now + d)])
          /\ pc' = "loop"
          /\ UNCHANGED result
  /\ all_messages' = <<>>
  /\ skip' = 0
  /\ has_more' = PyBool(TRUE)
  /\ page_count' = 0
  /\ UNCHANGED <<inputs, cache, runs, ncalls, call, requests, responses,
                 errors, cleanVars, pairVars, mainVars>>

\* what lines 165-171 would give if every request asked for the first page
RequestFirstPage ==
  [url |-> "https://de-platform.kore.ai/api/public/bot/" \o call.key.bot_id
             \o "/getMessages",
   auth |-> token, skip |-> 0, limit |-> limit,
   dateFrom |-> strftime(call.key.date_from),
   dateTo |-> strftime(call.key.date_to), forward |-> "false"]

\* what lines 150 and 172 would give if the headers kept the token of the
\* first run of the body
RequestFirstToken ==
  [url |-> "https://de-platform.kore.ai/api/public/bot/" \o call.key.bot_id
             \o "/getMessages",
   auth |-> IF Len(issued) > 0 THEN issued[1].token ELSE token,
   skip |-> skip, limit |-> limit,
   dateFrom |-> strftime(call.key.date_from),
   dateTo |-> strftime(call.key.date_to), forward |-> "false"]

\* lines 165-171 and 150: the request of one iteration
Request ==
  [url |-> "https://de-platform.kore.ai/api/public/bot/" \o call.key.bot_id
             \o "/getMessages",
   auth |-> token, skip |-> skip, limit |-> limit,
   dateFrom |-> strftime(call.key.date_from),
   dateTo |-> strftime(call.key.date_to), forward |-> "false"]

\* lines 229-230: the handler of `except Exception`
ConnectionError(exc) == [kind |-> "conn", exc |-> exc]

\* lines 163-172: `while has_more`, and the POST.  An exception of
\* requests.post goes to the handler of line 228, which leaves the loop.
PostRequest(answers) ==
  /\ pc = "loop"
  /\ Truthy(has_more)
  /\ Len(requests) < MaxPages
  /\ \E a \in answers :
       /\ requests' = Append(requests, Request)
       /\ responses' = Append(responses, a)
       /\ IF a.kind = "exc"
          THEN /\ errors' = Append(errors, ConnectionError(a.exc))
               /\ pc' = "ret"
          ELSE /\ pc' = "resp"
               /\ UNCHANGED errors
  /\ UNCHANGED <<inputs, now, cache, runs, ncalls, call, token, issued,
                 all_messages, skip, has_more, page_count, result, cleanVars,
                 pairVars, mainVars>>

\* what line 175 would do if no status were taken for an error
NeverApiError(status) == FALSE

\* line 175: the test that sends a response to the error branch
IsApiError(status) == status # 200

\* lines 176-185: the report of the error branch
ApiError(response) ==
  [kind |-> "api", page |-> page_count + 1, status |-> response.status,
   detail |-> IF response.body.json THEN "json" ELSE "text"]

\* what line 220 would give with True as the default
MoreAvailableDefaultTrue(body) ==
  IF body.moreAvailable = PyAbsent THEN PyBool(TRUE) ELSE body.moreAvailable

\* line 220: data.get("moreAvailable", False)
MoreAvailable(body) ==
  IF body.moreAvailable = PyAbsent THEN PyBool(FALSE) ELSE body.moreAvailable

\* lines 175-230: the rest of the iteration, on the response of the POST
HandleResponse ==
  /\ pc = "resp"
  /\ LET response == responses[Len(responses)] IN
     IF IsApiError(response.status)
     THEN \* lines 176-190: report and break
          /\ errors' = Append(errors, ApiError(response))
          /\ pc' = "ret"
          /\ UNCHANGED <<all_messages, skip, has_more, page_count>>
     ELSE IF ~response.body.json
     THEN \* line 193: response.json() raises, line 228 catches
          /\ errors' = Append(errors, ConnectionError("JSONDecodeError"))
          /\ pc' = "ret"
          /\ UNCHANGED <<all_messages, skip, has_more, page_count>>
     ELSE LET page == ProcessPage(all_messages, response.body.messages)
              more == MoreAvailable(response.body)
          IN /\ page_count' = page_count + 1
             /\ all_messages' = page.msgs
             /\ IF page.exc # "none"
                THEN \* a message raised: line 228 catches, has_more is not read
                     /\ errors' = Append(errors, ConnectionError(page.exc))
                     /\ pc' = "ret"
                     /\ UNCHANGED <<skip, has_more>>
                ELSE /\ has_more' = more
                     /\ skip' = IF Truthy(more) THEN skip + limit ELSE skip
                     /\ pc' = IF Truthy(more) THEN "loop" ELSE "ret"
                     /\ UNCHANGED errors
  /\ UNCHANGED <<inputs, now, cache, runs, ncalls, call, token, issued,
                 requests, responses, result, cleanVars, pairVars, mainVars>>

\* what st.cache_data would do if it stored only the results of runs that
\* reported no error
ReturnMessagesStoreClean ==
  /\ pc = "ret"
  /\ result' = [state |-> "returned", value |-> all_messages]
  /\ cache' = IF errors = <<>>
              THEN {e \in cache : e.key # call.key}
                     \cup {[key |-> call.key, value |-> all_messages,
                            reported |-> errors, stored |-> now]}
              ELSE cache
  /\ runs' = {r \in runs : r.key # call.key}
               \cup {[key |-> call.key, value |-> all_messages, at |-> now]}
  /\ pc' = "idle"
  /\ token' = NoToken
  /\ all_messages' = <<>>
  /\ skip' = 0
  /\ has_more' = PyBool(TRUE)
  /\ page_count' = 0
  /\ UNCHANGED <<inputs, now, ncalls, call, issued, requests, responses,
                 errors, cleanVars, pairVars, mainVars>>

\* lines 232-234 and 144: return all_messages; st.cache_data stores it, and
\* the locals are gone
ReturnMessages ==
  /\ pc = "ret"
  /\ result' = [state |-> "returned", value |-> all_messages]
  /\ cache' = {e \in cache : e.key # call.key}
                \cup {[key |-> call.key, value |-> all_messages,
                       reported |-> errors, stored |-> now]}
  /\ runs' = {r \in runs : r.key # call.key}
               \cup {[key |-> call.key, value |-> all_messages, at |-> now]}
  /\ pc' = "idle"
  /\ token' = NoToken
  /\ all_messages' = <<>>
  /\ skip' = 0
  /\ has_more' = PyBool(TRUE)
  /\ page_count' = 0
  /\ UNCHANGED <<inputs, now, ncalls, call, issued, requests, responses,
                 errors, cleanVars, pairVars, mainVars>>

\* the wall clock moves on between two invocations
Tick ==
  /\ pc = "idle"
  /\ now + TickSeconds <= MaxTime
  /\ now' = now + TickSeconds
  /\ UNCHANGED <<inputs, cache, runs, ncalls, pc, call, token, issued,
                 all_messages, skip, has_more, page_count, requests, responses,
                 errors, result, cleanVars, pairVars, mainVars>>

\* one invocation of fetch_data from a cold cache, any answers of the server
Next ==
  \/ CallFetchData(1)
  \/ GenerateJwt(ClockSteps)
  \/ PostRequest(FetchAnswers)
  \/ HandleResponse
  \/ ReturnMessages

Spec == Init /\ [][Next]_vars

\* one invocation in which every step that can be taken is taken in the end:
\* the body runs on, and every request gets some answer
SpecLive == Spec /\ WF_vars(Next)

\* one invocation, answered by one page of one message of any kind
NextMsg ==
  \/ CallFetchData(1)
  \/ GenerateJwt(ClockSteps)
  \/ PostRequest(RichAnswers)
  \/ HandleResponse
  \/ ReturnMessages

SpecMsg == Init /\ [][NextMsg]_vars

\* what the server answers in the invocations of SpecCache
CacheAnswers ==
  {ExcAnswer,
   Http(500, TextBody),
   Http(200, PageBody(<<MsgUser>>, PyBool(TRUE))),
   Http(200, PageBody(<<>>, PyAbsent))}

\* several invocations, with either of two parameter sets, as time goes by
NextCache ==
  \/ CallFetchData(MaxCalls)
  \/ GenerateJwt({0})
  \/ PostRequest(CacheAnswers)
  \/ HandleResponse
  \/ ReturnMessages
  \/ Tick

InitCache ==
  /\ InitFetch(CacheKeys)
  /\ cleanIn = PyStr("")
  /\ cleanOut = Pending
  /\ IdlePairs
  /\ MainAt("fetch")

SpecCache == InitCache /\ [][NextCache]_vars

(***************************************************************************)
(* clean_kore_text on its own                                              *)
(***************************************************************************)

InitClean ==
  /\ InitFetch({FetchKeys})
  /\ cleanIn \in CleanInputs
  /\ cleanOut = Pending
  /\ IdlePairs
  /\ MainAt("fetch")

\* lines 124-139: one call of clean_kore_text
CallCleanKoreText ==
  /\ cleanOut = Pending
  /\ cleanOut' = clean_kore_text(cleanIn)
  /\ UNCHANGED <<cleanIn, fetchVars, pairVars, mainVars>>

NextClean == CallCleanKoreText

SpecClean == InitClean /\ [][NextClean]_vars

(***************************************************************************)
(* process_to_pairs, step by step                                          *)
(***************************************************************************)

MaxRuns == 2

\* what line 244 would give if final_pairs outlived the call
LeftoverPairs(previous) == previous

\* line 244: final_pairs = []
NewFinalPairs(previous) == <<>>

\* lines 239-244: the call groups raw_data by session
GroupSessions ==
  /\ ppc = "call"
  /\ sessions' = GroupBySession(<<>>, raw_data)
  /\ final_pairs' = NewFinalPairs(final_pairs)
  /\ si' = 1
  /\ ppc' = "session"
  /\ UNCHANGED <<raw_data, current_pair, ci, df, nruns, first_df, fetchVars,
                 cleanVars, mainVars>>

\* what lines 246-248 would do without `current_pair = None`
SortSessionKeepPair ==
  /\ ppc = "session"
  /\ si <= Len(sessions)
  /\ sessions' = [sessions EXCEPT ![si].chats = sort_chats(@)]
  /\ ci' = 1
  /\ ppc' = "chat"
  /\ UNCHANGED <<raw_data, final_pairs, current_pair, si, df, nruns, first_df,
                 fetchVars, cleanVars, mainVars>>

\* lines 246-248: the next session; its chats are sorted, no pair is open
SortSession ==
  /\ ppc = "session"
  /\ si <= Len(sessions)
  /\ sessions' = [sessions EXCEPT ![si].chats = sort_chats(@)]
  /\ current_pair' = PyNone
  /\ ci' = 1
  /\ ppc' = "chat"
  /\ UNCHANGED <<raw_data, final_pairs, si, df, nruns, first_df, fetchVars,
                 cleanVars, mainVars>>

\* what lines 263-274 would give if a BOT chat with no pair open left its
\* pair pending instead of appending it
WalkStepPending(chat, session_id, pairs, pair) ==
  IF chat.Sender = "USER"
  THEN [final_pairs |-> AppendIfOpen(pairs, pair),
        current_pair |-> OpenPair(chat, session_id)]
  ELSE IF chat.Sender = "BOT"
  THEN IF pair # PyNone
       THEN [final_pairs |-> pairs,
             current_pair |-> AppendReply(pair, chat.Message)]
       ELSE [final_pairs |-> pairs,
             current_pair |-> WelcomePair(chat, session_id)]
  ELSE [final_pairs |-> pairs, current_pair |-> pair]

\* lines 254-274 for one chat: the new final_pairs and current_pair
WalkStep(chat, session_id, pairs, pair) ==
  IF chat.Sender = "USER"
  THEN [final_pairs |-> AppendIfOpen(pairs, pair),
        current_pair |-> OpenPair(chat, session_id)]
  ELSE IF chat.Sender = "BOT"
  THEN IF pair # PyNone
       THEN [final_pairs |-> pairs,
             current_pair |-> AppendReply(pair, chat.Message)]
       ELSE [final_pairs |-> Append(pairs, WelcomePair(chat, session_id)),
             current_pair |-> pair]
  ELSE [final_pairs |-> pairs, current_pair |-> pair]

\* lines 250-274: the next chat of the session
WalkChat ==
  /\ ppc = "chat"
  /\ ci <= Len(sessions[si].chats)
  /\ final_pairs' = WalkStep(sessions[si].chats[ci], sessions[si].id,
                             final_pairs, current_pair).final_pairs
  /\ current_pair' = WalkStep(sessions[si].chats[ci], sessions[si].id,
                              final_pairs, current_pair).current_pair
  /\ ci' = ci + 1
  /\ UNCHANGED <<raw_data, sessions, si, df, ppc, nruns, first_df, fetchVars,
                 cleanVars, mainVars>>

\* line 276: the session is over, the open pair is appended
CloseSession ==
  /\ ppc = "chat"
  /\ ci > Len(sessions[si].chats)
  /\ final_pairs' = AppendIfOpen(final_pairs, current_pair)
  /\ si' = si + 1
  /\ ppc' = "session"
  /\ UNCHANGED <<raw_data, sessions, current_pair, ci, df, nruns, first_df,
                 fetchVars, cleanVars, mainVars>>

\* lines 278-287: no session is left, the table is made and returned
ReturnTable ==
  /\ ppc = "session"
  /\ si > Len(sessions)
  /\ df' = MakeTable(final_pairs)
  /\ first_df' = IF nruns = 0 THEN MakeTable(final_pairs) ELSE first_df
  /\ nruns' = nruns + 1
  /\ ppc' = "done"
  /\ UNCHANGED <<raw_data, sessions, final_pairs, current_pair, si, ci,
                 fetchVars, cleanVars, mainVars>>

\* line 332 once more, on the same raw_data (the script runs again)
CallAgain ==
  /\ ppc = "done"
  /\ nruns < MaxRuns
  /\ ppc' = "call"
  /\ UNCHANGED <<raw_data, sessions, final_pairs, current_pair, si, ci, df,
                 nruns, first_df, fetchVars, cleanVars, mainVars>>

InitPairs ==
  /\ InitFetch({FetchKeys})
  /\ cleanIn = PyStr("")
  /\ cleanOut = Pending
  /\ raw_data \in PairInputs
  /\ sessions = <<>>
  /\ final_pairs = <<>>
  /\ current_pair = PyNone
  /\ si = 0
  /\ ci = 0
  /\ df = <<>>
  /\ ppc = "call"
  /\ nruns = 0
  /\ first_df = <<>>
  /\ MainAt("pairs")

\* process_to_pairs on any sequence of chats, run after run
NextPairs ==
  \/ GroupSessions
  \/ SortSession
  \/ WalkChat
  \/ CloseSession
  \/ ReturnTable
  \/ CallAgain

SpecPairs == InitPairs /\ [][NextPairs]_vars

(***************************************************************************)
(* main: one run of the script                                             *)
(***************************************************************************)

\* what main puts on the page
ConfigError == [kind |-> "error", text |-> "Secrets missing"]
NoMessagesInfo == [kind |-> "info", text |-> "No messages found"]
AllFilteredWarning == [kind |-> "warning", text |-> "all messages were filtered out"]
ReadyBanner == [kind |-> "markdown", text |-> "Ready to Analyze"]

\* lines 397-398: df[['Timestamp', 'UserID', 'Query', 'Response']]
TableColumns(rows) ==
  [r \in 1..Len(rows) |->
     [Timestamp |-> rows[r].Timestamp, UserID |-> rows[r].UserID,
      Query |-> rows[r].Query, Response |-> rows[r].Response]]

\* lines 337-346 and 397-415: the metrics, the table and the download
Metrics(rows) ==
  [kind |-> "metrics", total |-> Len(rows),
   users |-> Cardinality({rows[r].UserID : r \in 1..Len(rows)}),
   sessions |-> Cardinality({rows[r].SessionID : r \in 1..Len(rows)}),
   responded |-> Cardinality({r \in 1..Len(rows) : rows[r].Response # ""})]
Dataframe(rows) == [kind |-> "dataframe", rows |-> TableColumns(rows)]
Download(rows) == [kind |-> "download", rows |-> rows]

\* what lines 310-316 would do if only the client secret were looked up
ClientSecretMissing(found) == "CLIENT_SECRET" \notin found

\* lines 310-316: one of the three look-ups raises
SecretsMissing(found) == \E name \in SecretNames : name \notin found

\* lines 310-316: the secrets are read, or the error is shown and st.stop()
\* ends the run
MainSecrets ==
  /\ mpc = "start"
  /\ IF SecretsMissing(secrets)
     THEN /\ shown' = Append(shown, ConfigError)
          /\ mpc' = "stopped"
     ELSE /\ mpc' = "form"
          /\ UNCHANGED shown
  /\ UNCHANGED <<secrets, fetch_btn, fetchVars, cleanVars, pairVars>>

\* lines 318-328 and 421-427: the form; without a submit the banner is shown
MainForm ==
  /\ mpc = "form"
  /\ IF fetch_btn
     THEN /\ mpc' = "fetch"
          /\ UNCHANGED shown
     ELSE /\ shown' = Append(shown, ReadyBanner)
          /\ mpc' = "done"
  /\ UNCHANGED <<secrets, fetch_btn, fetchVars, cleanVars, pairVars>>

\* what line 331 would do if a single message counted for nothing
MoreThanOne(value) == Len(value) > 1

\* line 331: `if raw_data:`
HasMessages(value) == Len(value) > 0

\* lines 329-332 and 418-419: fetch_data has returned; its list goes to
\* process_to_pairs, or the note that there are no messages is shown
MainProcess ==
  /\ mpc = "fetch"
  /\ pc = "idle"
  /\ result.state = "returned"
  /\ IF HasMessages(result.value)
     THEN /\ raw_data' = result.value
          /\ ppc' = "call"
          /\ mpc' = "pairs"
          /\ UNCHANGED shown
     ELSE /\ shown' = Append(shown, NoMessagesInfo)
          /\ mpc' = "done"
          /\ UNCHANGED <<raw_data, ppc>>
  /\ UNCHANGED <<secrets, fetch_btn, sessions, final_pairs, current_pair, si,
                 ci, df, nruns, first_df, fetchVars, cleanVars>>

\* lines 334-417: process_to_pairs has returned; the table is shown, or the
\* warning that nothing is left
MainDisplay ==
  /\ mpc = "pairs"
  /\ ppc = "done"
  /\ shown' = IF Len(df) > 0
              THEN shown \o <<Metrics(df), Dataframe(df), Download(df)>>
              ELSE Append(shown, AllFilteredWarning)
  /\ mpc' = "done"
  /\ UNCHANGED <<secrets, fetch_btn, fetchVars, cleanVars, pairVars>>

\* a question and its answer in one session
MsgAsk == RawMessage(5, "s2", "u2", "incoming", TextComponent(PyStr("xx")))
MsgReply == RawMessage(5, "s2", "u2", "outgoing", TextComponent(PyStr("<b>x")))

\* what the server answers in the run of SpecMain
MainAnswers ==
  {ExcAnswer,
   Http(500, TextBody),
   Http(200, PageBody(<<MsgUser, MsgBot>>, PyBool(TRUE))),
   Http(200, PageBody(<<MsgAsk, MsgReply>>, PyBool(TRUE))),
   Http(200, PageBody(<<MsgNoise>>, PyBool(TRUE))),
   Http(200, PageBody(<<MsgBot>>, PyBool(FALSE))),
   Http(200, PageBody(<<>>, PyAbsent))}

InitMain ==
  /\ InitFetch({{BaseKey}})
  /\ cleanIn = PyStr("")
  /\ cleanOut = Pending
  /\ IdlePairs
  /\ secrets \in SUBSET SecretNames
  /\ fetch_btn \in BOOLEAN
  /\ mpc = "start"
  /\ shown = <<>>

\* fetch_data runs where main calls it (line 329)
FetchStep ==
  /\ mpc = "fetch"
  /\ \/ CallFetchData(1)
     \/ GenerateJwt({0})
     \/ PostRequest(MainAnswers)
     \/ HandleResponse
     \/ ReturnMessages

\* process_to_pairs runs where main calls it (line 332)
PairStep ==
  /\ mpc = "pairs"
  /\ \/ GroupSessions
     \/ SortSession
     \/ WalkChat
     \/ CloseSession
     \/ ReturnTable

\* what main does once fetch_data has returned
AfterFetch == MainProcess \/ PairStep \/ MainDisplay

NextMain == MainSecrets \/ MainForm \/ FetchStep \/ AfterFetch

\* the script runs on: once fetch_data has returned nothing outside the
\* script is waited for
SpecMain == InitMain /\ [][NextMain]_vars /\ WF_vars(AfterFetch)

(***************************************************************************)
(* Properties                                                              *)
(***************************************************************************)

\* an HTTP status of the success class
Is2xx(status) == status >= 200 /\ status <= 299

\* the records of the messages of a page that come through normalization and
\* the filters, in the order of the page
RECURSIVE Survivors(_)
Survivors(messages) ==
  IF Len(messages) = 0 THEN <<>>
  ELSE (IF MessageOutcome[Head(messages)].kind = "emit"
        THEN <<MessageOutcome[Head(messages)].rec>>
        ELSE <<>>) \o Survivors(Tail(messages))

\* the same, of the messages in front of the first one that raises
RECURSIVE SurvivorsBeforeRaise(_)
SurvivorsBeforeRaise(messages) ==
  IF Len(messages) = 0 THEN <<>>
  ELSE IF MessageOutcome[Head(messages)].kind = "raise" THEN <<>>
  ELSE (IF MessageOutcome[Head(messages)].kind = "emit"
        THEN <<MessageOutcome[Head(messages)].rec>>
        ELSE <<>>) \o SurvivorsBeforeRaise(Tail(messages))

PageRaises(messages) ==
  \E i \in 1..Len(messages) : MessageOutcome[messages[i]].kind = "raise"

\* the survivors of the pages 1..k of the invocation, page after page
RECURSIVE SurvivorsUpTo(_)
SurvivorsUpTo(k) ==
  IF k = 0 THEN <<>>
  ELSE SurvivorsUpTo(k - 1) \o Survivors(responses[k].body.messages)

Returned(value) == [state |-> "returned", value |-> value]

\* C1: when the k-th request is answered with a non-success status, no
\* further request is made, one API error with that status is reported, and
\* fetch_data returns the survivors of the pages 1..k-1, in order.
C1_HttpErrorReturnsEarlierPages ==
  \A k \in 1..Len(responses) :
    (responses[k].kind = "http" /\ ~Is2xx(responses[k].status)) =>
      /\ Len(requests) = k
      /\ pc \in {"resp", "ret", "idle"}
      /\ pc \in {"ret", "idle"} =>
           /\ Len(errors) = 1
           /\ errors[1].kind = "api"
           /\ errors[1].status = responses[k].status
      /\ pc = "ret" => all_messages = SurvivorsUpTo(k - 1)
      /\ pc = "idle" => result = Returned(SurvivorsUpTo(k - 1))

\* a 500 on page 2, after a first page with survivors, and fetch_data is back
C1_Witness ==
  /\ pc = "idle"
  /\ Len(responses) = 2
  /\ responses[2].kind = "http"
  /\ responses[2].status = 500
  /\ Len(requests) = 2
  /\ result.state = "returned"
  /\ Len(result.value) = 2

\* the k-th iteration raises: in the POST, in response.json(), or on a message
ExceptionAt(k) ==
  \/ responses[k].kind = "exc"
  \/ /\ responses[k].kind = "http"
     /\ responses[k].status = 200
     /\ \/ ~responses[k].body.json
        \/ PageRaises(responses[k].body.messages)

\* what had been appended when the k-th iteration raised
AppendedBefore(k) ==
  SurvivorsUpTo(k - 1)
    \o (IF responses[k].kind = "http" /\ responses[k].body.json
        THEN SurvivorsBeforeRaise(responses[k].body.messages)
        ELSE <<>>)

\* C2: when an iteration raises (the POST, the decoding of the body, or a
\* message of the page), no further request is made, the exception is
\* reported and does not reach the caller, and fetch_data returns the
\* messages appended before it.
C2_ExceptionAbortsWithPartial ==
  \A k \in 1..Len(responses) :
    ExceptionAt(k) =>
      /\ Len(requests) = k
      /\ pc \in {"resp", "ret", "idle"}
      /\ result.state # "raised"
      /\ pc \in {"ret", "idle"} =>
           /\ Len(errors) = 1
           /\ errors[1].kind = "conn"
      /\ pc = "ret" => all_messages = AppendedBefore(k)
      /\ pc = "idle" => result = Returned(AppendedBefore(k))

\* page 2 raises on its second message, after three messages were appended
C2_Witness ==
  /\ pc = "idle"
  /\ Len(responses) = 2
  /\ responses[2].kind = "http"
  /\ responses[2].status = 200
  /\ responses[2].body.json
  /\ PageRaises(responses[2].body.messages)
  /\ Len(errors) = 1
  /\ result.state = "returned"
  /\ Len(result.value) = 3

\* the invocation is over, no error was reported: every request was answered
\* with a page, and the last page did not announce another
NormalEnd ==
  /\ pc = "idle"
  /\ result.state = "returned"
  /\ errors = <<>>
  /\ Len(responses) >= 1
  /\ \A k \in 1..Len(responses) :
       /\ responses[k].kind = "http"
       /\ Is2xx(responses[k].status)
       /\ responses[k].body.json
  /\ responses[Len(responses)].body.moreAvailable \in {PyBool(FALSE), PyAbsent}

\* C3: when an invocation ends normally, the returned sequence is the
\* survivors of page 1, then of page 2, and so on, each page in its own
\* order: none left out, none twice, none moved.
C3_NormalEndReturnsAllSurvivors ==
  NormalEnd => result.value = SurvivorsUpTo(Len(responses))

\* two pages, one message dropped, three returned
C3_Witness ==
  /\ NormalEnd
  /\ Len(responses) = 2
  /\ Len(responses[1].body.messages) + Len(responses[2].body.messages) = 4
  /\ Len(result.value) = 3

\* the three conditions on a normalized text under which a message is dropped
DropConditions(text) ==
  \/ text = ""
  \/ IsUuid(strip(text))
  \/ contains(strip(text), UserDetailsMarker)

\* an invocation answered by one good page of the one message msg is over
OneMessageDone(msg) ==
  /\ pc = "idle"
  /\ result.state = "returned"
  /\ Len(responses) = 1
  /\ responses[1].kind = "http"
  /\ responses[1].status = 200
  /\ responses[1].body.json
  /\ responses[1].body.messages = <<msg>>

\* C4: a message with a normalized text is dropped when that text is empty,
\* or, trimmed, is a UUID (either case) or holds the marker, and only then;
\* any other is emitted once, with that text.
C4_DroppedIffFilterMatches ==
  \A msg \in ServerMsgs :
    (OneMessageDone(msg) /\ FinalText[msg].t = "str") =>
      IF DropConditions(FinalText[msg].s)
      THEN result.value = <<>>
      ELSE /\ Len(result.value) = 1
           /\ result.value[1].Message = FinalText[msg].s
           /\ result.value[1].Timestamp = msg.createdOn

\* an upper-case UUID with white space around it was dropped
C4_Witness ==
  /\ \E msg \in ServerMsgs :
       /\ OneMessageDone(msg)
       /\ FinalText[msg] =
            PyStr(" A1B2C3D4-E5F6-7890-ABCD-1234567890AB")
  /\ result.value = <<>>
  /\ errors = <<>>

\* C5: no record of the accumulated list, and none of the returned list,
\* has the empty string for its Message.
C5_MessageNeverEmpty ==
  /\ \A i \in 1..Len(all_messages) : all_messages[i].Message # ""
  /\ result.state = "returned" =>
       \A i \in 1..Len(result.value) : result.value[i].Message # ""

\* a text of white space only is kept as it is
C5_Witness ==
  /\ result.state = "returned"
  /\ Len(result.value) = 1
  /\ result.value[1].Message = " "

\* C6: every token issued by generate_jwt has exp - iat = 3600, whatever the
\* clock did during the call.
C6_ExpMinusIatIs3600 ==
  token.sub = "bot-auth" => token.exp - token.iat = 3600

\* C7: an invocation made less than 300 s after the body last ran to its end
\* with the same five parameters makes no request and returns what that run
\* returned; any other invocation (other parameters, or 300 s gone) runs the
\* body again.
C7_CachedWithinWindow ==
  [][ncalls' = ncalls + 1 =>
        IF \E r \in runs : r.key = call'.key /\ now < r.at + 300
        THEN /\ call'.cached
             /\ pc' = "idle"
             /\ requests' = <<>>
             /\ \A r \in runs :
                  r.key = call'.key => result' = Returned(r.value)
        ELSE /\ ~call'.cached
             /\ pc' = "jwt"
             /\ result' = NoResult]_vars

\* a later invocation was answered from the cache, with messages
C7_Witness ==
  /\ pc = "idle"
  /\ call.cached
  /\ now > 0
  /\ requests = <<>>
  /\ result.state = "returned"
  /\ Len(result.value) = 2

\* the response of the k-th request has been dealt with
Handled(k) == k < Len(responses) \/ pc \in {"ret", "idle"}

\* C8: a response is reported as an API error exactly when its status is
\* not a 2xx one.
C8_ApiErrorIffNon2xx ==
  \A k \in 1..Len(responses) :
    (responses[k].kind = "http" /\ Handled(k)) =>
      ((\E e \in 1..Len(errors) : errors[e].kind = "api" /\ errors[e].page = k)
         <=> ~Is2xx(responses[k].status))

\* s holds a "<", then one character or more that is not ">", then a ">"
HasTag(s) ==
  \E i \in 1..Len(s) : \E j \in (i + 2)..Len(s) :
    /\ At(s, i) = "<"
    /\ At(s, j) = ">"
    /\ \A m \in (i + 1)..(j - 1) : At(s, m) # ">"

HasEntity(s) ==
  contains(s, "&nbsp;") \/ contains(s, "&amp;") \/ contains(s, "&quot;")

\* a non-empty str without tag and without entity
PlainText(v) == v.t = "str" /\ v.s # "" /\ ~HasTag(v.s) /\ ~HasEntity(v.s)

\* parsed is a JSON mapping with the field
MappingWith(parsed, field) ==
  parsed.ok /\ parsed.v.t = "dict" /\ HasKey(parsed.v, field)

\* s is the JSON text of a mapping that has a `text` or a `payload` field
IsEnvelope(s) ==
  MappingWith(json_loads(s), "text") \/ MappingWith(json_loads(s), "payload")

\* C9, as stated: every non-empty string without tag and without entity,
\* the ones that begin with "{" included, comes back unchanged.
C9_PlainTextUnchanged ==
  (cleanOut # Pending /\ PlainText(cleanIn)) => cleanOut = cleanIn

\* C9, amended: every non-empty string without tag and without entity that
\* is not the JSON text of a mapping with a `text` or a `payload` field comes
\* back unchanged.
C9_PlainTextUnchangedUnlessEnvelope ==
  (cleanOut # Pending /\ PlainText(cleanIn) /\ ~IsEnvelope(cleanIn.s)) =>
    cleanOut = cleanIn

\* a JSON mapping without `text` and `payload` came back as it was
C9_Witness ==
  /\ cleanIn = PyStr("{\"msg\":\"Hi\"}")
  /\ cleanOut = cleanIn

TextFieldOutcome(parsed, out) ==
  MappingWith(parsed, "text") => out = Finish(GetKey(parsed.v, "text"))

\* C10: for the JSON text of a mapping with a `text` field, the outcome is
\* that of tag removal and entity replacement on the value of the field: the
\* value is not parsed again, a `payload` field beside it changes nothing,
\* and the example of the specification gives Hi&bye.
C10_TextFieldUnwrappedOnce ==
  (cleanOut # Pending /\ cleanIn.t = "str") =>
    /\ TextFieldOutcome(json_loads(cleanIn.s), cleanOut)
    /\ cleanIn.s = ExampleDoc => cleanOut = PyStr("Hi&bye")

\* the example of the specification
C10_Witness ==
  /\ cleanIn = PyStr("{\"text\": \"<b>Hi</b>&amp;bye\"}")
  /\ cleanOut = PyStr("Hi&bye")

\* the label for a mapping: its `type` field when there is one
LabelOf(d) ==
  IF ~HasKey(d, "type") THEN "[Interactive: template]"
  ELSE IF GetKey(d, "type").t = "str"
       THEN "[Interactive: " \o GetKey(d, "type").s \o "]"
       ELSE "[Interactive: " \o py_str(GetKey(d, "type")) \o "]"

PayloadOutcome(parsed, out) ==
  (MappingWith(parsed, "payload") /\ ~MappingWith(parsed, "text")) =>
    out = PyStr(LabelOf(parsed.v))

\* C11: for the JSON text of a mapping with a `payload` field and no `text`
\* field, clean_kore_text returns [Interactive: <type>], with the `type`
\* field when there is one and template otherwise, and the label is not
\* stripped of tags or entities.
C11_PayloadGivesLabel ==
  (cleanOut # Pending /\ cleanIn.t = "str") =>
    /\ PayloadOutcome(json_loads(cleanIn.s), cleanOut)
    /\ cleanIn.s = "{\"payload\": {\"a\":1}, \"type\": \"carousel\"}" =>
         cleanOut = PyStr("[Interactive: carousel]")
    /\ cleanIn.s = "{\"payload\": {\"a\":1}}" =>
         cleanOut = PyStr("[Interactive: template]")

\* a `type` that is a tag followed by an entity stays in the label as it is
C11_Witness ==
  /\ cleanIn = PyStr("{\"payload\":{},\"type\":\"<b>&amp;\"}")
  /\ cleanOut = PyStr("[Interactive: <b>&amp;]")

\* C12: a string that, trimmed, starts with "{" and is not JSON raises
\* nothing and comes back as tag removal and entity replacement give it
\* from the string itself.
C12_ParseFailureFallsThrough ==
  (/\ cleanOut # Pending
   /\ cleanIn.t = "str"
   /\ startswith(strip(cleanIn.s), "{")
   /\ ~json_loads(cleanIn.s).ok) =>
    /\ cleanOut.t = "str"
    /\ cleanOut = Finish(cleanIn)

\* a document without its closing brace, with a tag and an entity in it
C12_Witness ==
  /\ cleanIn = PyStr("{\"text\":\"<b>&amp;\"")
  /\ cleanOut = PyStr("{\"text\":\"&\"")

\* the pairs built for a session, in the order they were appended
SessionPairs(id) == SelectSeq(final_pairs, LAMBDA pair : pair.SessionID = id)

\* the places of the USER chats in a session's chats
UserAt(chats) == {i \in 1..Len(chats) : chats[i].Sender = "USER"}

\* the place of the first USER chat behind place i, or the place behind the
\* last chat
NextUser(chats, i) ==
  IF \E j \in UserAt(chats) : j > i
  THEN CHOOSE j \in UserAt(chats) :
         j > i /\ \A m \in UserAt(chats) : m > i => j <= m
  ELSE Len(chats) + 1

\* how many BOT chats stand in front of the first USER chat
Leading(chats) == NextUser(chats, 0) - 1

\* the how-manieth USER chat the one at place i is
Rank(chats, i) == Cardinality({j \in UserAt(chats) : j <= i})

\* the texts of the chats from..to, with " \n " between them
RECURSIVE JoinReplies(_, _, _)
JoinReplies(chats, from, to) ==
  IF from > to THEN ""
  ELSE IF from = to THEN chats[from].Message
  ELSE chats[from].Message \o " \n " \o JoinReplies(chats, from + 1, to)

\* chats holds the chats of raw_data with that SessionID, each as often,
\* earlier ones first
SortedChatsOf(chats, id) ==
  /\ \A i, j \in 1..Len(chats) :
       i < j => chats[i].Timestamp <= chats[j].Timestamp
  /\ \A c \in ChatCatalogue :
       Cardinality({i \in 1..Len(chats) : chats[i] = c})
         = Cardinality({i \in 1..Len(raw_data) :
                          raw_data[i] = c /\ c.SessionID = id})

\* the pairs of a session: behind the ones made for its leading BOT chats,
\* one for each USER chat, with its text and the texts of the BOT chats up
\* to the next USER chat
SessionPairsAsExpected(chats, pairs) ==
  /\ Len(pairs) = Leading(chats) + Cardinality(UserAt(chats))
  /\ \A i \in UserAt(chats) :
       /\ pairs[Leading(chats) + Rank(chats, i)].Query = chats[i].Message
       /\ pairs[Leading(chats) + Rank(chats, i)].Response
            = JoinReplies(chats, i + 1, NextUser(chats, i) - 1)

\* C13: for each session, with its chats in ascending Timestamp order,
\* process_to_pairs builds one pair for each USER chat: its Query is that
\* chat's text, its Response the texts of the BOT chats up to the next USER
\* chat of the session, joined with " \n ", or "" when there is none.
C13_OnePairPerUserMessage ==
  ppc = "done" =>
    /\ \A c \in 1..Len(raw_data) :
         \E n \in 1..Len(sessions) : sessions[n].id = raw_data[c].SessionID
    /\ \A n \in 1..Len(sessions) :
         /\ SortedChatsOf(sessions[n].chats, sessions[n].id)
         /\ SessionPairsAsExpected(sessions[n].chats,
                                   SessionPairs(sessions[n].id))

\* the example of the specification: Q1, A1, A2, Q2 in one session
C13_Witness ==
  /\ ppc = "done"
  /\ raw_data = <<Chat(1, "s1", "u1", "USER", "Q1"),
                  Chat(2, "s1", "bot", "BOT", "A1"),
                  Chat(3, "s1", "bot", "BOT", "A2"),
                  Chat(4, "s1", "u1", "USER", "Q2")>>
  /\ Len(df) = 2
  /\ df[2].Query = "Q1"
  /\ df[2].Response = "A1 \n A2"
  /\ df[1].Query = "Q2"
  /\ df[1].Response = ""

\* the pair carries the Timestamp, SessionID and UserID of the chat and the
\* chat's text as its Query
StampedBy(pair, chat, timestamp) ==
  /\ pair.Query = chat.Message
  /\ pair.Timestamp = timestamp
  /\ pair.SessionID = chat.SessionID
  /\ pair.UserID = chat.UserID

\* the pair built for each USER chat of a session is stamped by that chat
BuiltPairsStamped ==
  \A n \in 1..Len(sessions) :
    \A i \in UserAt(sessions[n].chats) :
      /\ Leading(sessions[n].chats) + Rank(sessions[n].chats, i)
           <= Len(SessionPairs(sessions[n].id))
      /\ StampedBy(SessionPairs(sessions[n].id)
                     [Leading(sessions[n].chats) + Rank(sessions[n].chats, i)],
                   sessions[n].chats[i], sessions[n].chats[i].Timestamp)

\* every row of the returned table is stamped by a USER chat of the input
RowsStamped ==
  \A r \in 1..Len(df) :
    \E c \in 1..Len(raw_data) :
      /\ raw_data[c].Sender = "USER"
      /\ StampedBy(df[r], raw_data[c], to_datetime(raw_data[c].Timestamp))

\* the walk is at a BOT chat while a pair is open
ReplyArrives ==
  /\ ppc = "chat"
  /\ ci <= Len(sessions[si].chats)
  /\ sessions[si].chats[ci].Sender = "BOT"
  /\ current_pair # PyNone

\* C14: every pair of the output carries the Timestamp, SessionID and UserID
\* of the USER chat that supplies its Query, and adding a BOT chat's text to
\* a pair changes none of its Timestamp, SessionID, UserID and Query.
C14_PairStampedByUserMessage ==
  /\ [](ppc = "done" => BuiltPairsStamped /\ RowsStamped)
  /\ [][ReplyArrives =>
          /\ current_pair'.Timestamp = current_pair.Timestamp
          /\ current_pair'.SessionID = current_pair.SessionID
          /\ current_pair'.UserID = current_pair.UserID
          /\ current_pair'.Query = current_pair.Query
          /\ final_pairs' = final_pairs]_vars

\* a pair opened by u1's chat of Timestamp 1 has taken two texts of the bot
C14_Witness ==
  /\ ppc = "chat"
  /\ current_pair # PyNone
  /\ current_pair = [Timestamp |-> 1, SessionID |-> "s1", UserID |-> "u1",
                     Query |-> "Q1", Response |-> "A1 \n A2"]

\* the chat's text is in no row of the returned table
InNoRow(chat) ==
  \A r \in 1..Len(df) :
    /\ ~contains(df[r].Response, chat.Message)
    /\ df[r].Query # chat.Message

\* C15: a BOT chat that comes before every USER chat of its session opens no
\* pending pair and its text is in no pair of the output, neither as a pair
\* of its own nor in the Response of a later pair; a session of BOT chats
\* only gives the output no pair.
C15_LeadingBotMessagesDropped ==
  /\ [](ppc = "done" =>
          \A n \in 1..Len(sessions) :
            /\ \A i \in 1..Leading(sessions[n].chats) :
                 InNoRow(sessions[n].chats[i])
            /\ UserAt(sessions[n].chats) = {} =>
                 \A r \in 1..Len(df) : df[r].SessionID # sessions[n].id)
  /\ [][(/\ ppc = "chat"
         /\ ci <= Len(sessions[si].chats)
         /\ sessions[si].chats[ci].Sender = "BOT"
         /\ current_pair = PyNone) => current_pair' = PyNone]_vars

\* the bot's W1 came before u1's Q1, and session s2 has a chat of the bot
\* only: the table has the one row Q1 / A1
C15_Witness ==
  /\ ppc = "done"
  /\ raw_data = <<Chat(1, "s1", "bot", "BOT", "W1"),
                  Chat(1, "s1", "u1", "USER", "Q1"),
                  Chat(2, "s1", "bot", "BOT", "A1"),
                  Chat(3, "s2", "bot", "BOT", "A3")>>
  /\ Len(final_pairs) = 3
  /\ Len(df) = 1
  /\ df[1].Query = "Q1"
  /\ df[1].Response = "A1"

\* C16: whatever the input, no pair of process_to_pairs' output has
\* "(Bot Initiated / Welcome)" as its Query.
C16_NoSentinelQueryInOutput ==
  ppc = "done" => \A r \in 1..Len(df) : df[r].Query # Sentinel

\* two pairs with the sentinel as Query were built, one for the bot's leading
\* W1 and one for u2's chat with that very text; the table has Q1 alone
C16_Witness ==
  /\ ppc = "done"
  /\ raw_data = <<Chat(1, "s1", "bot", "BOT", "W1"),
                  Chat(1, "s1", "u1", "USER", "Q1"),
                  Chat(2, "s2", "u2", "USER", Sentinel),
                  Chat(3, "s2", "bot", "BOT", "A3")>>
  /\ Cardinality({i \in 1..Len(final_pairs) :
                    final_pairs[i].Query = Sentinel}) = 2
  /\ Len(df) = 1
  /\ df[1].Query = "Q1"

\* C17: the rows of process_to_pairs' output stand in non-increasing order
\* of Timestamp, the sessions taken together, and the output is the empty
\* table when no pair is left once those with the sentinel as Query are
\* taken out.
C17_OutputNewestFirst ==
  ppc = "done" =>
    /\ \A r, s \in 1..Len(df) :
         r < s => df[r].Timestamp.datetime >= df[s].Timestamp.datetime
    /\ (\A i \in 1..Len(final_pairs) : final_pairs[i].Query = Sentinel)
         => df = <<>>
    /\ Len(df) = Cardinality({i \in 1..Len(final_pairs) :
                                final_pairs[i].Query # Sentinel})

\* session s1 has pairs of Timestamp 1 and 4, session s2 one of Timestamp 3:
\* the table has them as 4, 3, 1
C17_Witness ==
  /\ ppc = "done"
  /\ raw_data = <<Chat(1, "s1", "u1", "USER", "Q1"),
                  Chat(4, "s1", "u1", "USER", "Q2"),
                  Chat(3, "s2", "u2", "USER", "Q3")>>
  /\ Len(df) = 3
  /\ df[1].Query = "Q2"
  /\ df[2].Query = "Q3"
  /\ df[3].Query = "Q1"

\* C18: process_to_pairs run again on the same input returns the table it
\* returned the first time, and no run changes its input.
C18_SecondRunSameOutput ==
  /\ []((ppc = "done" /\ nruns >= 2) => df = first_df)
  /\ [][raw_data' = raw_data]_vars

\* the second run has returned the two rows of the first
C18_Witness ==
  /\ ppc = "done"
  /\ nruns = 2
  /\ raw_data = <<Chat(1, "s1", "u1", "USER", "Q1"),
                  Chat(2, "s1", "bot", "BOT", "A1"),
                  Chat(3, "s2", "u2", "USER", "Q3")>>
  /\ Len(df) = 2
  /\ df = first_df
  /\ df[2].Response = "A1"

\* C19: when one of BOT_ID, CLIENT_ID and CLIENT_SECRET is missing, main
\* shows the configuration error and stops before fetch_data is called: in
\* that run no token is made and no request is sent.
C19_MissingSecretStopsBeforeFetch ==
  (secrets # SecretNames) =>
    /\ mpc \in {"start", "stopped"}
    /\ mpc = "stopped" => shown = <<ConfigError>>
    /\ mpc = "start" => shown = <<>>
    /\ ncalls = 0
    /\ pc = "idle"
    /\ token = NoToken
    /\ requests = <<>>
    /\ ppc = "idle"

\* CLIENT_ID alone is missing, and the run has stopped on the error
C19_Witness ==
  /\ secrets = {"BOT_ID", "CLIENT_SECRET"}
  /\ fetch_btn
  /\ mpc = "stopped"
  /\ shown = <<ConfigError>>
  /\ ncalls = 0

\* fetch_data has just returned a list that is not empty
ReturnedMessages ==
  /\ mpc = "fetch"
  /\ pc = "idle"
  /\ result.state = "returned"
  /\ Len(result.value) > 0

\* the USER chat is a row of the table on the page
OnThePage(chat) ==
  \E e \in 1..Len(shown) :
    /\ shown[e].kind = "dataframe"
    /\ \E r \in 1..Len(shown[e].rows) :
         /\ shown[e].rows[r].Query = chat.Message
         /\ shown[e].rows[r].UserID = chat.UserID
         /\ shown[e].rows[r].Timestamp = to_datetime(chat.Timestamp)

\* the run is over and the page has the table process_to_pairs made of the
\* list fetch_data returned, or the warning if that table is empty
PairsDisplayed ==
  /\ mpc = "done"
  /\ ppc = "done"
  /\ nruns = 1
  /\ raw_data = result.value
  /\ IF Len(df) > 0
     THEN shown = <<Metrics(df), Dataframe(df), Download(df)>>
     ELSE shown = <<AllFilteredWarning>>
  /\ \A c \in 1..Len(result.value) :
       (result.value[c].Sender = "USER" /\ result.value[c].Message # Sentinel)
         => OnThePage(result.value[c])

\* C20: whenever fetch_data returns a list that is not empty, also when an
\* HTTP or transport error ended it early, main passes that list to
\* process_to_pairs and shows the pairs made of it; between the fetch and
\* the display the list is never replaced or emptied.
C20_FetchedMessagesDisplayed ==
  /\ ReturnedMessages ~> PairsDisplayed
  /\ []((mpc \in {"pairs", "done"} /\ result.state = "returned"
           /\ Len(result.value) > 0) => raw_data = result.value)
  /\ [][mpc = "pairs" => raw_data' = raw_data /\ result' = result]_vars

\* the second request failed with status 500; the question and the answer of
\* the first page are on the page
C20_Witness ==
  /\ mpc = "done"
  /\ Len(errors) = 1
  /\ errors[1].kind = "api"
  /\ Len(requests) = 2
  /\ Len(result.value) = 2
  /\ shown = <<Metrics(df), Dataframe(df), Download(df)>>
  /\ Len(df) = 1
  /\ df[1].Query = "xx"
  /\ df[1].Response = "x"

\* the k-th response is a page that was processed to its end and says that
\* more is available
PageWithMore(k) ==
  /\ responses[k].kind = "http"
  /\ Is2xx(responses[k].status)
  /\ responses[k].body.json
  /\ responses[k].body.moreAvailable = PyBool(TRUE)
  /\ ~PageRaises(responses[k].body.messages)

\* C21: in a run of fetch_data the k-th request carries skip = 100 * (k - 1)
\* and limit = 100; skip grows, by exactly 100, only when a successful page
\* with moreAvailable true has been handled, and no skip is requested twice.
C21_SkipAdvancesByPageSize ==
  /\ [](/\ \A k \in 1..Len(requests) :
             /\ requests[k].skip = 100 * (k - 1)
             /\ requests[k].limit = 100
        /\ \A j, k \in 1..Len(requests) :
             j # k => requests[j].skip # requests[k].skip)
  /\ [][(pc \in {"loop", "resp"} /\ skip' # skip) =>
          /\ pc = "resp"
          /\ skip' = skip + 100
          /\ PageWithMore(Len(responses))]_vars

\* the third request of a run asks for skip 200
C21_Witness ==
  /\ Len(requests) = 3
  /\ requests[1].skip = 0
  /\ requests[2].skip = 100
  /\ requests[3].skip = 200
  /\ PageWithMore(1)
  /\ PageWithMore(2)

\* the k-th response is a successful page that does not say that more is
\* available
LastPage(k) ==
  /\ responses[k].kind = "http"
  /\ Is2xx(responses[k].status)
  /\ responses[k].body.json
  /\ responses[k].body.moreAvailable \in {PyBool(FALSE), PyAbsent}

\* C22: after a successful page whose moreAvailable is false or absent
\* fetch_data sends no further request and returns; every request but the
\* first follows a successful page whose moreAvailable is true.
C22_StopsAfterLastPage ==
  /\ [](\A k \in 1..Len(responses) :
          LastPage(k) => (Len(requests) = k /\ pc # "loop"))
  /\ [](\A k \in 2..Len(requests) : PageWithMore(k - 1))
  /\ (Len(responses) > 0 /\ LastPage(Len(responses)))
       ~> (pc = "idle" /\ result.state = "returned"
             /\ LastPage(Len(responses)))

\* the second page came without the flag, and fetch_data has returned after
\* two requests
C22_Witness ==
  /\ Len(requests) = 2
  /\ PageWithMore(1)
  /\ LastPage(2)
  /\ responses[2].body.moreAvailable = PyAbsent
  /\ pc = "idle"
  /\ result.state = "returned"

\* the k-th answer is one of those that end the loop: a status outside the
\* success class, a failure that raises an exception (of the POST, of
\* response.json() or of the handling of a message), or a page that does not
\* say that more is available
EndingAnswer(k) ==
  \/ responses[k].kind = "exc"
  \/ /\ responses[k].kind = "http"
     /\ \/ ~Is2xx(responses[k].status)
        \/ ~responses[k].body.json
        \/ PageRaises(responses[k].body.messages)
        \/ responses[k].body.moreAvailable \in {PyBool(FALSE), PyAbsent}

\* C23: fetch_data returns in the end whenever the server answers a request
\* with a non-success status, a failure that raises an exception or a page
\* whose moreAvailable is false or absent; the loop has no other exit: it is
\* not left while the server answers success with moreAvailable true.
C23_ReturnsIffEndingAnswer ==
  /\ (Len(responses) > 0 /\ EndingAnswer(Len(responses)))
       ~> (pc = "idle" /\ result.state = "returned")
  /\ []((pc \in {"ret", "idle"} /\ Len(responses) > 0)
          => EndingAnswer(Len(responses)))

\* the tokens made in the c-th invocation, as places in issued
TokensOf(c) == {i \in 1..Len(issued) : issued[i].call = c}

\* C24: a run of fetch_data's body makes exactly one token, before its first
\* request, and every request of the run carries that token: the token is
\* not made again between pages, and no request carries the token of
\* another run.
C24_OneTokenPerRun ==
  /\ [](/\ \A c \in 1..ncalls : Cardinality(TokensOf(c)) <= 1
        /\ pc = "jwt" => (TokensOf(ncalls) = {} /\ requests = <<>>)
        /\ (pc \in {"loop", "resp", "ret"}
              \/ (pc = "idle" /\ ncalls > 0 /\ ~call.cached))
             => /\ Cardinality(TokensOf(ncalls)) = 1
                /\ \A i \in TokensOf(ncalls) :
                     /\ i = Len(issued)
                     /\ \A k \in 1..Len(requests) :
                          requests[k].auth = issued[i].token
        /\ call.cached => (TokensOf(ncalls) = {} /\ requests = <<>>))
  /\ [][token' # token => pc \in {"jwt", "ret"}]_vars

\* the second run of the body has sent two requests with its own token, which
\* is not the token of the first run
C24_Witness ==
  /\ ncalls = 2
  /\ Len(issued) = 2
  /\ issued[1].token # issued[2].token
  /\ Len(requests) = 2
  /\ requests[1].auth = issued[2].token
  /\ requests[2].auth = issued[2].token

\* the Sender a raw message's type stands for
SenderOf(msg) ==
  CASE msg.type = "incoming" -> "USER"
    [] msg.type = Absent -> "BOT"
    [] OTHER -> "BOT"

\* C25: every record fetch_data emits has Sender USER or BOT: USER exactly
\* when the raw message's type is 'incoming', BOT for any other type and for
\* a message without type.
C25_SenderFromType ==
  /\ \A i \in 1..Len(all_messages) : all_messages[i].Sender \in {"USER", "BOT"}
  /\ result.state = "returned" =>
       \A i \in 1..Len(result.value) : result.value[i].Sender \in {"USER", "BOT"}
  /\ (/\ pc = "idle"
      /\ result.state = "returned"
      /\ Len(responses) = 1
      /\ responses[1].kind = "http"
      /\ responses[1].status = 200
      /\ responses[1].body.json
      /\ Len(responses[1].body.messages) = 1)
       => \A i \in 1..Len(result.value) :
            /\ result.value[i].Sender = SenderOf(responses[1].body.messages[1])
            /\ (result.value[i].Sender = "USER")
                 <=> (responses[1].body.messages[1].type = "incoming")

\* a message without type has been emitted as the bot's
C25_Witness ==
  /\ pc = "idle"
  /\ result.state = "returned"
  /\ Len(responses) = 1
  /\ responses[1].kind = "http"
  /\ responses[1].body.json
  /\ Len(responses[1].body.messages) = 1
  /\ responses[1].body.messages[1].type = Absent
  /\ Len(result.value) = 1
  /\ result.value[1].Sender = "BOT"

\* the place of a chat in the input (no chat is twice in an input)
PlaceIn(chats, chat) == CHOOSE i \in 1..Len(chats) : chats[i] = chat

\* C26: chats of one session with the same Timestamp are walked in the order
\* they have in the input; so a BOT chat that comes before a USER chat of
\* the same Timestamp is handled before it and is not part of that USER
\* chat's pair.
C26_EqualTimestampsKeepInputOrder ==
  ppc = "done" =>
    /\ \A n \in 1..Len(sessions) :
         \A i, j \in 1..Len(sessions[n].chats) :
           (i < j /\ sessions[n].chats[i].Timestamp
                       = sessions[n].chats[j].Timestamp)
             => PlaceIn(raw_data, sessions[n].chats[i])
                  < PlaceIn(raw_data, sessions[n].chats[j])
    /\ \A a, b \in 1..Len(raw_data) :
         (/\ a < b
          /\ raw_data[a].Sender = "BOT"
          /\ raw_data[b].Sender = "USER"
          /\ raw_data[a].SessionID = raw_data[b].SessionID
          /\ raw_data[a].Timestamp = raw_data[b].Timestamp)
           => \A p \in 1..Len(final_pairs) :
                (/\ final_pairs[p].Query = raw_data[b].Message
                 /\ final_pairs[p].SessionID = raw_data[b].SessionID)
                  => ~contains(final_pairs[p].Response, raw_data[a].Message)

\* the bot's W1 and u1's Q1 have Timestamp 1 and W1 came first, behind the
\* later A1: Q1's pair has A1 alone
C26_Witness ==
  /\ ppc = "done"
  /\ raw_data = <<Chat(2, "s1", "bot", "BOT", "A1"),
                  Chat(1, "s1", "bot", "BOT", "W1"),
                  Chat(1, "s1", "u1", "USER", "Q1")>>
  /\ sessions[1].chats[1].Message = "W1"
  /\ sessions[1].chats[2].Message = "Q1"
  /\ Len(df) = 1
  /\ df[1].Query = "Q1"
  /\ df[1].Response = "A1"

\* the k-th response is a page (status 200, a JSON body) each of whose
\* messages hands a raw text to the normalization
PageToNormalize(k) ==
  /\ responses[k].kind = "http"
  /\ responses[k].status = 200
  /\ responses[k].body.json
  /\ \A i \in 1..Len(responses[k].body.messages) :
       ExtractRawText(responses[k].body.messages[i]).t # "raise"

\* C27: whatever raw text a message of the server carries, a JSON mapping
\* whose text is not a string included, its normalization in fetch_data
\* gives a string or a drop: no error is reported for it, the loop goes on
\* as the page's moreAvailable says, and the other messages of the page are
\* handled.
C27_NormalizationNeverSurfaces ==
  (/\ Len(responses) > 0
   /\ PageToNormalize(Len(responses))
   /\ pc \in {"loop", "ret", "idle"})
    => /\ errors = <<>>
       /\ ~PageRaises(responses[Len(responses)].body.messages)
       /\ pc = "loop" <=> Truthy(MoreAvailable(responses[Len(responses)].body))
       /\ pc = "ret" =>
            all_messages = SurvivorsUpTo(Len(responses) - 1)
                             \o Survivors(responses[Len(responses)].body.messages)

\* the chats of the session under way that the walk has handled
Walked == SubSeq(sessions[si].chats, 1, ci - 1)

\* 1 if a pair is open
OpenPairs == IF current_pair # PyNone THEN 1 ELSE 0

\* C28: while a session is walked at most one pair is open, and every pair
\* that was opened is appended exactly once, when the next USER chat comes
\* or at the session's end; the table process_to_pairs returns has as many
\* rows as the input has USER chats whose Message is not
\* "(Bot Initiated / Welcome)".
C28_RowsCountUserMessages ==
  /\ ppc = "chat" =>
       /\ current_pair # PyNone <=> UserAt(Walked) # {}
       /\ Len(SessionPairs(sessions[si].id)) + OpenPairs
            = Leading(Walked) + Cardinality(UserAt(Walked))
       /\ current_pair # PyNone =>
            \A p \in 1..Len(final_pairs) : final_pairs[p] # current_pair
  /\ ppc = "done" =>
       /\ Len(final_pairs)
            = Cardinality({c \in 1..Len(raw_data) : raw_data[c].Sender = "USER"})
              + Cardinality({p \in 1..Len(final_pairs) :
                               final_pairs[p] \in
                                 {WelcomePair(raw_data[c], raw_data[c].SessionID) :
                                    c \in {d \in 1..Len(raw_data) :
                                             raw_data[d].Sender = "BOT"}}})
       /\ Len(df)
            = Cardinality({c \in 1..Len(raw_data) :
                             /\ raw_data[c].Sender = "USER"
                             /\ raw_data[c].Message # Sentinel})

\* three USER chats, one of them with the sentinel's text, and one BOT chat:
\* three pairs were built and the table has two rows
C28_Witness ==
  /\ ppc = "done"
  /\ raw_data = <<Chat(3, "s2", "u2", "USER", "Q3"),
                  Chat(2, "s2", "u2", "USER", Sentinel),
                  Chat(1, "s1", "u1", "USER", "Q1"),
                  Chat(2, "s1", "bot", "BOT", "A1")>>
  /\ Len(final_pairs) = 3
  /\ Len(df) = 2

\* the Response of the pair holds texts of BOT chats of its own session only
OwnSessionTexts(pair) ==
  \A c \in 1..Len(raw_data) :
    (raw_data[c].Sender = "BOT" /\ contains(pair.Response, raw_data[c].Message))
      => raw_data[c].SessionID = pair.SessionID

\* C29: the building of pairs does not cross sessions: no pair is open when
\* the walk of a session begins, the Response of a pair holds only texts of
\* BOT chats with the pair's SessionID, and a BOT chat at the head of a
\* session is not added to a pair the session before left open.
C29_PairsStayInSession ==
  /\ [](/\ (ppc = "chat" /\ ci = 1) => current_pair = PyNone
        /\ (ppc = "chat" /\ current_pair # PyNone) =>
             /\ current_pair.SessionID = sessions[si].id
             /\ OwnSessionTexts(current_pair)
        /\ \A p \in 1..Len(final_pairs) : OwnSessionTexts(final_pairs[p]))
  /\ [][(/\ ppc = "chat"
         /\ ci = 1
         /\ ci <= Len(sessions[si].chats)
         /\ sessions[si].chats[ci].Sender = "BOT")
          => (/\ current_pair' = PyNone
              /\ Len(final_pairs') = Len(final_pairs) + 1
              /\ \A p \in 1..Len(final_pairs) :
                   final_pairs'[p] = final_pairs[p])]_vars

\* session s1 ended with Q2's pair open and session s2, walked next, begins
\* with the bot's A3: Q2 has no reply, Q3 has none either
C29_Witness ==
  /\ ppc = "done"
  /\ raw_data = <<Chat(4, "s1", "u1", "USER", "Q2"),
                  Chat(3, "s2", "bot", "BOT", "A3"),
                  Chat(3, "s2", "u2", "USER", "Q3")>>
  /\ Len(df) = 2
  /\ df[1].Query = "Q2"
  /\ df[1].Response = ""
  /\ df[2].Query = "Q3"
  /\ df[2].Response = ""

\* the last run of the body with these parameters ended on an error less
\* than 300 s ago, and this is what it returned
PartialRun(key, value) ==
  /\ \E r \in runs : r.key = key /\ r.value = value /\ now < r.at + 300
  /\ \E e \in cache : e.key = key /\ e.reported # <<>>

\* C30: the memoization of fetch_data treats a run that an HTTP or transport
\* error ended early like any other: the list it returns, empty or not, is
\* stored, and an invocation with the same parameters within 300 s returns
\* that list without a request.
C30_PartialResultsCached ==
  /\ [][(pc = "ret" /\ pc' = "idle") =>
          \E e \in cache' :
            /\ e.key = call.key
            /\ e.value = all_messages
            /\ e.stored = now
            /\ result' = Returned(e.value)]_vars
  /\ [][ncalls' = ncalls + 1 =>
          \A r \in runs :
            PartialRun(call'.key, r.value) =>
              /\ call'.cached
              /\ result' = Returned(r.value)
              /\ requests' = <<>>
              /\ issued' = issued
              /\ pc' = "idle"]_vars

\* the first run got one message and then status 500; 150 s later the same
\* parameters are answered with that one message, with no request
C30_Witness ==
  /\ ncalls = 2
  /\ now = 150
  /\ call.cached
  /\ pc = "idle"
  /\ requests = <<>>
  /\ Len(issued) = 1
  /\ result.state = "returned"
  /\ Len(result.value) = 1
  /\ Len(errors) = 1
  /\ errors[1].kind = "api"
  /\ PartialRun(call.key, result.value)

====
